---- MODULE Spec2Model ----
(***************************************************************************)
(* Model of the VIM microagent (openhands/microagent/vim): the session     *)
(* client and server supervisor of vim_agent.py, the high-level operations *)
(* of operations.py, the functions of integration.py and the editor        *)
(* process they drive over RPC.                                            *)
(*                                                                         *)
(* Text is a sequence of atoms.  An atom stands for one character or one   *)
(* run of non-blank characters; " " and "\t" are the whitespace            *)
(* characters, "\n" is the line separator and "<BS>" is the backspace      *)
(* character, which the editor's pattern atom \b matches.  A line is a     *)
(* text without "\n".                                                      *)
(***************************************************************************)
EXTENDS Integers, Sequences, FiniteSets, TLC

VARIABLES
    loc,        \* region location on a given list of lines (operations.py:69-88)
    bins,       \* editor binaries on the host's PATH, subset of {"nvim", "vim"}
    osr,        \* family named by /etc/os-release
    pkgs,       \* packages the host's package manager can install
    slow,       \* a spawned editor is not yet listening after the grace period
    stubborn,   \* a spawned editor does not exit within the wait after SIGTERM
    shared,     \* another client of the editor cuts the buffer being edited
    snaps,      \* history: what each file held when open_file last read it
    listen,     \* what accepts connections on host:port
    alive,      \* editor processes spawned by this instance and still running
    spawns,     \* number of processes spawned so far (the last one's id)
    sproc,      \* self._server_process: 0 for None, else a process id
    sigs,       \* what the instance did to editors: sessions closed, signals sent
    nvim,       \* self.nvim: "none", a "live" RPC session or a "stale" one
    conn,       \* self._is_connected
    hasorig,    \* hasattr(self, '_original_content')
    orig,       \* self._original_content
    log,        \* self.changes_record
    disk,       \* the files: path -> [exists, text]
    hidden,     \* the editor's 'hidden' option
    cur,        \* the editor's current buffer
    bufs,       \* the editor's buffer list
    did,        \* what the last call did: connect and start_server calls,
                \* attach attempts, refused attaches, requests sent
    reply,      \* the dict the last call returned, if it was an integration call
    last,       \* the last call: operation, arguments, return value
    prev,       \* the call before the last one
    steps       \* number of calls made

----------------------------------------------------------------------------
(* Bounds *)

MaxLocLen == 5      \* longest list of lines the region locator is tried on
MaxOps == 3         \* number of calls in a run
MaxFileLen == 4     \* longest module the region edits and add_import are tried on
MaxBufLen == 3      \* longest buffer replace_range is tried on

----------------------------------------------------------------------------
(* Python string helpers *)

NL == "\n"
Empty == <<>>     \* the empty line
WS == {" ", "\t"}

RECURSIVE lstrip(_)
lstrip(s) == IF s # <<>> /\ Head(s) \in WS THEN lstrip(Tail(s)) ELSE s

RECURSIVE rstrip(_)
rstrip(s) ==
    IF s # <<>> /\ s[Len(s)] \in WS THEN rstrip(SubSeq(s, 1, Len(s) - 1)) ELSE s

strip(s) == rstrip(lstrip(s))

\* len(line) - len(line.lstrip())
Indentation(line) == Len(line) - Len(lstrip(line))

\* text.split('\n'): the pieces between separators, at least one piece;
\* i scans t, s is where the current piece starts
RECURSIVE SplitAt(_, _, _)
SplitAt(t, i, s) ==
    IF i > Len(t) THEN <<SubSeq(t, s, Len(t))>>
    ELSE IF t[i] = NL THEN <<SubSeq(t, s, i - 1)>> \o SplitAt(t, i + 1, i + 1)
    ELSE SplitAt(t, i + 1, s)

split(t) == SplitAt(t, 1, 1)

\* "\n".join(lines)
RECURSIVE join(_)
join(ls) ==
    IF ls = <<>> THEN <<>>
    ELSE IF Len(ls) = 1 THEN ls[1]
    ELSE ls[1] \o <<NL>> \o join(Tail(ls))

\* sub in text
Contains(sub, t) ==
    \E k \in 0..(Len(t) - Len(sub)) : SubSeq(t, k + 1, k + Len(sub)) = sub

StartsWith(s, p) == Len(s) >= Len(p) /\ SubSeq(s, 1, Len(p)) = p

----------------------------------------------------------------------------
(* Region location: the loop of edit_function / edit_class *)

\* for i in range(function_line, len(lines)), i a 0-based index, carrying
\* end_line; lines[i] of the code is lines[i + 1] here.
RECURSIVE ScanEnd(_, _, _, _)
ScanEnd(lines, indentation, i, end_line) ==
    IF i >= Len(lines) THEN end_line
    ELSE IF strip(lines[i + 1]) = <<>>
         THEN ScanEnd(lines, indentation, i + 1, i + 1)
         ELSE IF Indentation(lines[i + 1]) <= indentation
              THEN i
              ELSE ScanEnd(lines, indentation, i + 1, i + 1)

\* A mis-scan that stops at the first blank line.
FindEndStopAtBlank(lines, function_line) ==
    LET I == Indentation(lines[function_line])
        stops == {j \in (function_line + 1)..Len(lines) :
                     strip(lines[j]) = <<>> \/ Indentation(lines[j]) <= I}
    IN  IF stops = {} THEN Len(lines)
        ELSE (CHOOSE j \in stops : \A k \in stops : j <= k) - 1

\* end_line as passed to replace_range for the definition at function_line
FindEnd(lines, function_line) ==
    ScanEnd(lines, Indentation(lines[function_line]), function_line,
            function_line)

----------------------------------------------------------------------------
(* The state as one record, so that a handler is a composition of calls *)

\* a call that has done nothing yet
Idle == [connects |-> 0, starts |-> 0, attaches |-> 0, refused |-> 0,
         requests |-> 0, installs |-> 0, popens |-> 0, cmds |-> <<>>]

State ==
    [bins |-> bins, osr |-> osr, pkgs |-> pkgs, slow |-> slow,
     stubborn |-> stubborn, shared |-> shared, snaps |-> snaps,
     listen |-> listen, alive |-> alive,
     spawns |-> spawns, sproc |-> sproc, sigs |-> sigs, nvim |-> nvim, conn |-> conn, hasorig |-> hasorig, orig |-> orig,
     log |-> log, disk |-> disk, hidden |-> hidden, cur |-> cur, bufs |-> bufs,
     did |-> Idle]

\* one more of the things a call does
Count(st, what) == [st EXCEPT !.did[what] = @ + 1]

\* the state a call leaves and the value it returns
Ret(st, r) == [st |-> st, ret |-> r]

Min(a, b) == IF a < b THEN a ELSE b
Max(a, b) == IF a > b THEN a ELSE b
Clamp(x, lo, hi) == Max(lo, Min(x, hi))

----------------------------------------------------------------------------
(* The editor process: buffers, files, Ex commands and the buffer API.     *)
(* A buffer's lines are <<>> while the editor holds it as empty (a new,    *)
(* never-changed buffer or one whose file is empty or missing); the API    *)
(* shows such a buffer as one empty line and writing it gives an empty     *)
(* file.                                                                   *)

Paths == {"a.py", "b.py"}
NoName == ""
BufNames == Paths \cup {NoName}

NoFile == [exists |-> FALSE, text |-> <<>>]
File(t) == [exists |-> TRUE, text |-> t]

FreshBuf == [loaded |-> TRUE, lines |-> <<>>, modified |-> FALSE, row |-> 1, col |-> 0]
NoBuf == [loaded |-> FALSE, lines |-> <<>>, modified |-> FALSE, row |-> 1, col |-> 0]
FreshBufs == [n \in BufNames |-> IF n = NoName THEN FreshBuf ELSE NoBuf]

\* reading a file into a buffer: one line per "\n"-terminated piece
VimRead(t) ==
    IF t = <<>> THEN <<>>
    ELSE LET ps == split(t)
         IN  IF ps[Len(ps)] = <<>> THEN SubSeq(ps, 1, Len(ps) - 1) ELSE ps

\* writing a buffer: every line followed by "\n"
RECURSIVE VimWrite(_)
VimWrite(ls) ==
    IF ls = <<>> THEN <<>> ELSE ls[1] \o <<NL>> \o VimWrite(Tail(ls))

\* nvim.current.buffer[:]
ViewLines(b) == IF b.lines = <<>> THEN <<Empty>> ELSE b.lines

ColMax(line) == Max(0, Len(line) - 1)

\* the buffer with the cursor brought back inside it
FixCursor(b) ==
    LET r == Clamp(b.row, 1, Len(ViewLines(b)))
    IN  [b EXCEPT !.row = r, !.col = Clamp(b.col, 0, ColMax(ViewLines(b)[r]))]

CurBuf(st) == st.bufs[st.cur]
SetCur(st, b) == [st EXCEPT !.bufs[st.cur] = b]

\* the outcome of a remote call: raised or not, and the state it leaves
Raised(st) == [ok |-> FALSE, st |-> st, val |-> 0]
Done(st) == [ok |-> TRUE, st |-> st, val |-> 0]
Value(st, v) == [ok |-> TRUE, st |-> st, val |-> v]

\* the buffer of path p read from disk, the cursor on the last known line
Loaded(st, p, old) ==
    FixCursor([loaded |-> TRUE, lines |-> VimRead(st.disk[p].text),
               modified |-> FALSE, row |-> old.row, col |-> old.col])

\* the buffer list after the current buffer is abandoned
Abandon(st) ==
    IF st.hidden THEN st.bufs
    ELSE [st.bufs EXCEPT ![st.cur] = [@ EXCEPT !.loaded = FALSE, !.lines = <<>>]]

\* :edit p. E37 when the current buffer has unsaved changes, unless it is
\* another file that is edited and 'hidden' is set.
ExEdit(st, p) ==
    IF CurBuf(st).modified /\ (p = st.cur \/ ~st.hidden) THEN Raised(st)
    ELSE IF p = st.cur
         THEN Done(SetCur(st, Loaded(st, p, CurBuf(st))))
         ELSE LET left == Abandon(st)
              IN  Done([st EXCEPT !.cur = p,
                          !.bufs = IF left[p].loaded THEN left
                                   ELSE [left EXCEPT ![p] = Loaded(st, p, left[p])]])

\* :enew
ExEnew(st) ==
    IF CurBuf(st).modified /\ ~st.hidden THEN Raised(st)
    ELSE IF st.cur = NoName /\ ~CurBuf(st).modified THEN Done(st)
    ELSE Done([st EXCEPT !.cur = NoName,
                         !.bufs = [Abandon(st) EXCEPT ![NoName] = FreshBuf]])

\* :write. E32 when the buffer has no name.
ExWrite(st) ==
    IF st.cur = NoName THEN Raised(st)
    ELSE Done([st EXCEPT !.disk[st.cur] = File(VimWrite(CurBuf(st).lines)),
                         !.bufs[st.cur].modified = FALSE])

\* :write p. E13 when p exists and is not the buffer's file, E95 when an
\* unnamed buffer would take the name of a loaded buffer; an unnamed
\* buffer takes the name it is written to.
ExWriteTo(st, p) ==
    IF p = st.cur THEN ExWrite(st)
    ELSE IF st.disk[p].exists THEN Raised(st)
    ELSE IF st.cur = NoName
         THEN IF st.bufs[p].loaded THEN Raised(st)
              ELSE Done([st EXCEPT
                     !.disk[p] = File(VimWrite(CurBuf(st).lines)),
                     !.cur = p,
                     !.bufs = [st.bufs EXCEPT
                                 ![p] = [CurBuf(st) EXCEPT !.modified = FALSE],
                                 ![NoName] = NoBuf]])
         ELSE Done([st EXCEPT !.disk[p] = File(VimWrite(CurBuf(st).lines))])

\* :{n}: the cursor goes to line n, or the nearest line there is
ExGoto(st, n) ==
    Done(SetCur(st, FixCursor([CurBuf(st) EXCEPT !.row = Max(n, 1)])))

\* normal! $
ExNormalEnd(st) ==
    LET b == CurBuf(st)
    IN  Done(SetCur(st, [b EXCEPT !.col = ColMax(ViewLines(b)[b.row])]))

\* normal! j0: on the last line j fails and the 0 is not executed
ExNormalJ0(st) ==
    LET b == CurBuf(st)
    IN  IF b.row < Len(ViewLines(b))
        THEN Done(SetCur(st, [b EXCEPT !.row = b.row + 1, !.col = 0]))
        ELSE Done(st)

\* echo line(".")
ExEchoLine(st) == Value(st, CurBuf(st).row)

\* Patterns, as the callers build them for /\v{pattern}.  In the editor's
\* pattern language \s+ is a run of whitespace and \b is the <BS>
\* character (a word boundary is written \< or \>).
BS == "<BS>"
FuncPat(name) == [kws |-> {"def", "function", "func"}, word |-> name]
ClassPat(name) == [kws |-> {"class"}, word |-> name]
MethodPat(name) == [kws |-> {"def"}, word |-> name]
\* a pattern that is one literal atom
LitPat(a) == [kws |-> {}, word |-> a]

Matches(line, pat) ==
    IF pat.kws = {} THEN \E k \in 1..Len(line) : line[k] = pat.word
    ELSE \E k \in 1..Len(line) : \E j \in (k + 2)..(Len(line) - 1) :
            /\ line[k] \in pat.kws
            /\ \A m \in (k + 1)..(j - 1) : line[m] \in WS
            /\ line[j] = pat.word
            /\ line[j + 1] = BS

\* :/\v{pattern}: the cursor goes to the next line that matches, wrapping
\* at the end of the buffer; E486 when no line matches.
ExSearch(st, pat) ==
    LET b == CurBuf(st)
        view == ViewLines(b)
        rows == {r \in 1..Len(view) : Matches(view[r], pat)}
        after == {r \in rows : r > b.row}
        first(S) == CHOOSE r \in S : \A q \in S : r <= q
    IN  IF rows = {} THEN Raised(st)
        ELSE Done(SetCur(st, FixCursor(
                 [b EXCEPT !.row = IF after # {} THEN first(after)
                                   ELSE first(rows)])))

\* nvim_buf_set_lines(start, end, strict, replacement): 0-based, end
\* exclusive; indices past the end are clamped unless strict.
BufSetLines(st, start, end, strict, replacement) ==
    LET b == CurBuf(st)
        view == ViewLines(b)
        n == Len(view)
        s == Min(start, n)
        e == Min(end, n)
        res == SubSeq(view, 1, s) \o replacement \o SubSeq(view, e + 1, n)
        row == IF b.row > e THEN b.row + Len(replacement) - (e - s) ELSE b.row
    IN  IF (strict /\ (start > n \/ end > n)) \/ s > e THEN Raised(st)
        ELSE Done(SetCur(st, FixCursor(
                 [b EXCEPT !.lines = res, !.modified = TRUE, !.row = row])))

\* Typing in insert mode at the cursor, 'autoindent' set: <CR> breaks the
\* line, the new line takes the indent of the line it is broken from and
\* the white space before the rest of the line is dropped.
RECURSIVE Typed(_, _)
Typed(b, text) ==
    IF text = <<>> THEN b
    ELSE LET view == ViewLines(b)
             L == view[b.row]
             n == Len(view)
         IN  IF Head(text) # NL
             THEN Typed([b EXCEPT
                     !.lines = [view EXCEPT ![b.row] =
                         SubSeq(L, 1, b.col) \o <<Head(text)>>
                             \o SubSeq(L, b.col + 1, Len(L))],
                     !.col = b.col + 1], Tail(text))
             ELSE LET ind == SubSeq(L, 1, Min(Indentation(L), b.col))
                  IN  Typed([b EXCEPT
                     !.lines = SubSeq(view, 1, b.row - 1)
                         \o <<SubSeq(L, 1, b.col),
                              ind \o lstrip(SubSeq(L, b.col + 1, Len(L)))>>
                         \o SubSeq(view, b.row + 1, n),
                     !.row = b.row + 1,
                     !.col = Len(ind)], Tail(text))

\* nvim.input('i' + text + '\x1b')
InputInsert(st, text) ==
    IF text = <<>> THEN Done(st)
    ELSE LET b == Typed(CurBuf(st), text)
         IN  Done(SetCur(st, [b EXCEPT !.modified = TRUE,
                                       !.col = Max(0, b.col - 1)]))

\* The requests the client sends: Ex commands (nvim.command,
\* nvim.command_output), buffer assignments and typed input.
CmdEdit(p) == [req |-> "edit", path |-> p]
CmdEnew == [req |-> "enew"]
CmdWrite == [req |-> "write"]
CmdWriteTo(p) == [req |-> "write_to", path |-> p]
CmdGoto(n) == [req |-> "goto", n |-> n]
CmdNormalEnd == [req |-> "normal_end"]
CmdNormalJ0 == [req |-> "normal_j0"]
CmdEchoLine == [req |-> "echo_line"]
CmdSearch(pat) == [req |-> "search", pat |-> pat]
SetLines(start, end, strict, replacement) ==
    [req |-> "set_lines", start |-> start, end |-> end, strict |-> strict,
     lines |-> replacement]
Input(text) == [req |-> "input", text |-> text]

\* what the editor does with a request
Request(st, q) ==
    CASE q.req = "edit" -> ExEdit(st, q.path)
      [] q.req = "enew" -> ExEnew(st)
      [] q.req = "write" -> ExWrite(st)
      [] q.req = "write_to" -> ExWriteTo(st, q.path)
      [] q.req = "goto" -> ExGoto(st, q.n)
      [] q.req = "normal_end" -> ExNormalEnd(st)
      [] q.req = "normal_j0" -> ExNormalJ0(st)
      [] q.req = "echo_line" -> ExEchoLine(st)
      [] q.req = "search" -> ExSearch(st, q.pat)
      [] q.req = "set_lines" ->
            BufSetLines(st, q.start, q.end, q.strict, q.lines)
      [] q.req = "input" -> InputInsert(st, q.text)

----------------------------------------------------------------------------
(* VimMicroAgent: the server supervisor.  A method is a chain of steps;    *)
(* each step is an operator on the outcome of the step before it.          *)

NoListener == [by |-> "none", pid |-> 0]
External == [by |-> "ext", pid |-> 0]
\* something that accepts connections on the port and is not an editor
Foreign == [by |-> "other", pid |-> 0]
Own(pid) == [by |-> "own", pid |-> pid]

\* the outcome of a remote call as a method's return value
Result(r) == Ret(r.st, r.ok)

\* _is_neovim_installed: which nvim, then which vim
IsNeovimInstalled(st) == "nvim" \in st.bins \/ "vim" \in st.bins

\* the package commands of _install_neovim
AptUpdate == "apt-get update -y"
AptNeovim == "apt-get install -y neovim"
AptVim == "apt-get install -y vim"
ApkNeovim == "apk add --no-cache neovim"
ApkVim == "apk add --no-cache vim"

\* subprocess.run of a package command
Ran(st, cmd) == [st EXCEPT !.did.cmds = Append(@, cmd)]

\* the return code of an install: 0 when the package manager has the
\* package, whose binary is then on the PATH
Got(st, pkg, bin) ==
    IF pkg \in st.pkgs THEN Ret([st EXCEPT !.bins = @ \cup {bin}], TRUE)
    ELSE Ret(st, FALSE)

\* A fallback that installs vim whatever the first install returned.
FallbackEager(n, cmd) ==
    IF n.ret THEN Ret(Got(Ran(n.st, cmd), "vim", "vim").st, TRUE)
    ELSE Got(Ran(n.st, cmd), "vim", "vim")

\* if neovim_result.returncode != 0: install vim and return its result
Fallback(n, cmd) ==
    IF n.ret THEN n ELSE Got(Ran(n.st, cmd), "vim", "vim")

\* _install_neovim after cat /etc/os-release
InstallOn(i) ==
    IF i.osr \in {"debian", "ubuntu"}
    THEN Fallback(Got(Ran(Ran(i, AptUpdate), AptNeovim), "neovim", "nvim"),
                  AptVim)
    ELSE IF i.osr = "alpine"
    THEN Fallback(Got(Ran(i, ApkNeovim), "neovim", "nvim"), ApkVim)
    ELSE Ret(i, FALSE)

\* _install_neovim: the package manager of the family /etc/os-release
\* names installs neovim, or vim when that fails
InstallNeovim(st) == InstallOn(Count(st, "installs"))

\* if not self._is_neovim_installed(): if not self._install_neovim()
EnsureInstalled(st) ==
    IF IsNeovimInstalled(st) THEN Ret(st, TRUE) ELSE InstallNeovim(st)

\* _is_server_running: connect_ex((host, port)) == 0
IsServerRunning(st) == st.listen.by # "none"

\* subprocess.Popen(["nvim", "--headless", "--listen", ...]) and the
\* second's sleep: raises when there is no nvim to execute
Launched(st) ==
    IF "nvim" \notin st.bins THEN Raised(st)
    ELSE IF st.slow
         THEN Done([st EXCEPT !.spawns = @ + 1, !.sproc = st.spawns + 1,
                              !.alive = @ \cup {st.spawns + 1}])
         ELSE Done([st EXCEPT !.spawns = @ + 1, !.sproc = st.spawns + 1,
                              !.alive = @ \cup {st.spawns + 1},
                              !.listen = Own(st.spawns + 1),
                              !.cur = NoName, !.bufs = FreshBufs])

Popen(st) == Launched(Count(st, "popens"))

\* A spawn that is taken to have worked when Popen returns.
SpawnedUnprobed(p) == Ret(p.st, p.ok)

\* the probe after the spawn
Spawned(p) ==
    IF ~p.ok THEN Ret(p.st, FALSE) ELSE Ret(p.st, IsServerRunning(p.st))

\* A start_server step that probes before it looks at the install result.
StartInstalledProbeFirst(i) ==
    IF IsServerRunning(i.st) THEN Ret(i.st, TRUE)
    ELSE IF ~i.ret THEN Ret(i.st, FALSE)
    ELSE Spawned(Popen(i.st))

\* A start_server step that spawns without probing first.
StartInstalledUnprobed(i) ==
    IF ~i.ret THEN Ret(i.st, FALSE) ELSE Spawned(Popen(i.st))

\* start_server after the check for the binary
StartInstalled(i) ==
    IF ~i.ret THEN Ret(i.st, FALSE)
    ELSE IF IsServerRunning(i.st) THEN Ret(i.st, TRUE)
    ELSE Spawned(Popen(i.st))

\* A status request that starts the editor when the probe fails.
GetServerStatusStarting(st) ==
    IF IsServerRunning(st) THEN Ret(st, TRUE)
    ELSE StartInstalled(EnsureInstalled(Count(st, "starts")))

\* get_server_status: "running" is what _is_server_running returns
GetServerStatus(st) == Ret(st, IsServerRunning(st))

StartServer(st) == StartInstalled(EnsureInstalled(Count(st, "starts")))

\* pynvim.attach('tcp', ...): raises unless an editor is listening
Attach(st) ==
    IF st.listen.by \in {"ext", "own"}
    THEN Done([Count(st, "attaches") EXCEPT !.nvim = "live", !.conn = TRUE])
    ELSE Raised(Count(Count(st, "attaches"), "refused"))

\* connect after the server is known to run, or was started
ConnectStarted(s) ==
    IF ~s.ret THEN Ret(s.st, FALSE) ELSE Result(Attach(s.st))

ConnectProbed(c) ==
    ConnectStarted(IF IsServerRunning(c) THEN Ret(c, TRUE) ELSE StartServer(c))

Connect(st) == ConnectProbed(Count(st, "connects"))

\* what the instance does to an editor: closing the session, SIGTERM, SIGKILL
Closed == [sig |-> "close", pid |-> 0]
Sigterm(pid) == [sig |-> "terminate", pid |-> pid]
Sigkill(pid) == [sig |-> "kill", pid |-> pid]

\* disconnect: self.nvim.close() when there is a session
Disconnect(st) ==
    IF st.nvim # "none"
    THEN [st EXCEPT !.nvim = "none", !.conn = FALSE, !.sigs = Append(@, Closed)]
    ELSE st

\* terminate() and wait(timeout=5); kill() when the wait times out
Signalled(d) ==
    [d EXCEPT !.sigs = @ \o (IF d.stubborn
                             THEN <<Sigterm(d.sproc), Sigkill(d.sproc)>>
                             ELSE <<Sigterm(d.sproc)>>)]

\* A stop that takes down whatever is listening on the port.
TerminateListener(d) ==
    [d EXCEPT !.alive = @ \ {d.sproc}, !.listen = NoListener, !.sproc = 0,
              !.cur = NoName, !.bufs = FreshBufs]

\* A stop that kills outright.
TerminateByKill(d) ==
    IF d.sproc = 0 THEN d
    ELSE [d EXCEPT !.alive = @ \ {d.sproc}, !.sproc = 0,
                   !.sigs = Append(@, Sigkill(d.sproc)),
                   !.listen = IF @ = Own(d.sproc) THEN NoListener ELSE @]

\* the spawned process is gone and self._server_process = None
Reaped(g) ==
    IF g.listen = Own(g.sproc)
    THEN [g EXCEPT !.alive = @ \ {g.sproc}, !.listen = NoListener,
                   !.sproc = 0, !.cur = NoName, !.bufs = FreshBufs]
    ELSE [g EXCEPT !.alive = @ \ {g.sproc}, !.sproc = 0]

\* if self._server_process is not None: ...
Terminate(d) ==
    IF d.sproc = 0 THEN d ELSE Reaped(Signalled(d))

StopServer(st) == Terminate(Disconnect(st))

\* The editor the session is attached to dies (a crash, a kill from
\* outside): nothing listens any more, and self.nvim and
\* self._is_connected are as they were, the session itself being dead.
Crashed(st) ==
    [st EXCEPT !.nvim = "dead", !.listen = NoListener,
               !.alive = @ \ {st.listen.pid},
               !.cur = NoName, !.bufs = FreshBufs]

\* An _ensure_connected that tries connect once more when it fails.
EnsureConnectedAgain(st) ==
    IF ~st.conn \/ st.nvim = "none"
    THEN IF Connect(st).ret THEN Connect(st) ELSE Connect(Connect(st).st)
    ELSE Ret(st, TRUE)

EnsureConnected(st) ==
    IF ~st.conn \/ st.nvim = "none" THEN Connect(st) ELSE Ret(st, TRUE)

----------------------------------------------------------------------------
(* VimMicroAgent: the session client.  A remote call raises when the       *)
(* session is not live or the editor reports an error; every method        *)
(* catches that and returns its failure value.                             *)

\* a request through self.nvim
Remote(st, q) ==
    IF st.nvim = "live" THEN Request(Count(st, "requests"), q) ELSE Raised(st)

\* the body of a method after _ensure_connected: one request
RemoteCall(ec, q) ==
    IF ~ec.ret THEN Ret(ec.st, FALSE) ELSE Result(Remote(ec.st, q))

ReadFile(st, p) == st.disk[p].text

\* self._original_content = f.read(), or "" when the file does not exist
\* a file open_file has not read yet
Unread == [read |-> FALSE, text |-> <<>>]

\* A snapshot that is taken only when none is held.
SnapshotOnce(st, p) ==
    IF st.hasorig THEN st
    ELSE [st EXCEPT !.hasorig = TRUE,
                    !.orig = IF st.disk[p].exists THEN ReadFile(st, p) ELSE <<>>]

Snapshot(st, p) ==
    [st EXCEPT !.hasorig = TRUE,
               !.orig = IF st.disk[p].exists THEN ReadFile(st, p) ELSE <<>>,
               !.snaps[p] = [read |-> TRUE,
                             text |-> IF st.disk[p].exists THEN ReadFile(st, p)
                                      ELSE <<>>]]

\* An open_file that takes its snapshot whether or not it is connected.
OpenOnUnchecked(ec, p) == Result(Remote(Snapshot(ec.st, p), CmdEdit(p)))

\* open_file after _ensure_connected: the snapshot, then the command
OpenOn(ec, p) ==
    IF ~ec.ret THEN Ret(ec.st, FALSE)
    ELSE Result(Remote(Snapshot(ec.st, p), CmdEdit(p)))

OpenFile(st, p) == OpenOn(EnsureConnected(st), p)

GotoLine(st, n) == RemoteCall(EnsureConnected(st), CmdGoto(n))

\* found iff the cursor is not where it was
\* A search that succeeds whenever the command does not raise.
MovedOrStayed(current, r) == Ret(r.st, r.ok)

Moved(current, r) ==
    Ret(r.st, r.ok /\ <<current.row, current.col>>
                          # <<CurBuf(r.st).row, CurBuf(r.st).col>>)

SearchOn(ec, pat) ==
    IF ~ec.ret THEN Ret(ec.st, FALSE)
    ELSE Moved(CurBuf(ec.st), Remote(ec.st, CmdSearch(pat)))

Search(st, pat) == SearchOn(EnsureConnected(st), pat)

InsertText(st, text) == RemoteCall(EnsureConnected(st), Input(text))

\* self.nvim.current.buffer[line_number - 1] = new_text
ReplaceLine(st, line_number, new_text) ==
    RemoteCall(EnsureConnected(st),
               SetLines(line_number - 1, line_number, TRUE, <<new_text>>))

\* A replace_range that takes start_line as a 0-based index.
ReplaceRangeZeroBased(st, start_line, end_line, new_text) ==
    RemoteCall(EnsureConnected(st),
               SetLines(start_line, end_line, FALSE, new_text))

\* A replace_range whose end_line is the first line kept.
ReplaceRangeExclusive(st, start_line, end_line, new_text) ==
    RemoteCall(EnsureConnected(st),
               SetLines(start_line - 1, end_line - 1, FALSE, new_text))

\* self.nvim.current.buffer[start_line - 1:end_line] = new_text
ReplaceRange(st, start_line, end_line, new_text) ==
    RemoteCall(EnsureConnected(st),
               SetLines(start_line - 1, end_line, FALSE, new_text))

ChangeRecord(file, original, new) ==
    [file |-> file, original |-> original, new |-> new]

\* A recording step that records every save.
RecordedAlways(st, file_path, new_content) ==
    IF st.hasorig
    THEN Ret([st EXCEPT !.log = Append(@,
                 ChangeRecord(file_path, st.orig, new_content))], TRUE)
    ELSE Ret(st, TRUE)

\* A recording step that keeps one record per file.
RecordedOncePerFile(st, file_path, new_content) ==
    IF st.hasorig /\ new_content # st.orig
    THEN Ret([st EXCEPT !.log = Append(
                 SelectSeq(@, LAMBDA c : c.file # file_path),
                 ChangeRecord(file_path, st.orig, new_content))], TRUE)
    ELSE Ret(st, TRUE)

\* save_file after the read-back: record the change if there is one
Recorded(st, file_path, new_content) ==
    IF st.hasorig /\ new_content # st.orig
    THEN Ret([st EXCEPT !.log = Append(@,
                 ChangeRecord(file_path, st.orig, new_content))], TRUE)
    ELSE Ret(st, TRUE)

\* save_file after the write: the name of the buffer, the file read back
Written(w) ==
    IF ~w.ok THEN Ret(w.st, FALSE)
    ELSE Recorded(w.st, w.st.cur, ReadFile(w.st, w.st.cur))

SaveOn(ec) ==
    IF ~ec.ret THEN Ret(ec.st, FALSE) ELSE Written(Remote(ec.st, CmdWrite))

SaveFile(st) == SaveOn(EnsureConnected(st))

\* execute_command: the output of the command, or None
ExecuteOn(ec, command) ==
    IF ~ec.ret THEN Raised(ec.st) ELSE Remote(ec.st, command)

ExecuteCommand(st, command) == ExecuteOn(EnsureConnected(st), command)

\* What the editor's other client does between two requests of this one:
\* on a shared editor it deletes the lines from the cursor line on.
Meanwhile(st) ==
    IF ~st.shared THEN st
    ELSE LET b == CurBuf(st)
         IN  SetCur(st, FixCursor([b EXCEPT
                 !.lines = SubSeq(b.lines, 1, Min(b.row - 1, Len(b.lines))),
                 !.modified = TRUE]))

\* '\n'.join(self.nvim.current.buffer[:])
ContentOf(st) ==
    Value(Count(st, "requests"), join(ViewLines(CurBuf(st))))

\* get_current_file_content: "\n".join(buffer[:]), or None
ContentOn(ec) ==
    IF ~ec.ret \/ ec.st.nvim # "live" THEN Raised(ec.st)
    ELSE ContentOf(Meanwhile(ec.st))

GetCurrentFileContent(st) == ContentOn(EnsureConnected(st))

----------------------------------------------------------------------------
(* VimOperations.  A handler returns the state it leaves, its return       *)
(* value and the message it logged.  An optional argument is               *)
(* [some, text]: None is [some |-> FALSE, text |-> <<>>].                  *)

None == [some |-> FALSE, text |-> <<>>]
Some(t) == [some |-> TRUE, text |-> t]

\* an optional name: None is [some |-> FALSE, name |-> ""]
NoMethod == [some |-> FALSE, name |-> ""]
Method(m) == [some |-> TRUE, name |-> m]

Out(st, r, note) == [st |-> st, ret |-> r, note |-> note]

\* return vim.replace_range(function_line, end_line, new_lines)
Replaced(r) == Out(r.st, r.ret, "replaced")

\* The tail shared by edit_function and edit_class: the line of the
\* definition, the end of its region, and the replacement.  Only
\* edit_function checks the line against the line count; lines[...] of
\* edit_class raises IndexError instead.
RegionInLines(st, lines, function_line, new_content, checked) ==
    IF function_line > Len(lines)
    THEN Out(st, FALSE, IF checked THEN "out of range" ELSE "IndexError")
    ELSE Replaced(ReplaceRange(st, function_line, FindEnd(lines, function_line),
                               split(new_content)))

RegionInContent(c, function_line, new_content, checked) ==
    IF ~c.ok \/ c.val = <<>> THEN Out(c.st, FALSE, "no content")
    ELSE RegionInLines(c.st, split(c.val), function_line, new_content, checked)

RegionAtLine(fl, new_content, checked) ==
    IF ~fl.ok THEN Out(fl.st, FALSE, "no line")
    ELSE RegionInContent(GetCurrentFileContent(fl.st), fl.val, new_content,
                         checked)

ReplaceRegion(st, new_content, checked) ==
    RegionAtLine(ExecuteCommand(st, CmdEchoLine), new_content, checked)

\* A navigation that saves the file it has navigated in.
EditFunctionFoundSaved(s, new_content) ==
    IF ~s.ret THEN Out(s.st, FALSE, "not found")
    ELSE IF ~new_content.some THEN Out(SaveFile(s.st).st, TRUE, "navigated")
    ELSE ReplaceRegion(s.st, new_content.text, TRUE)

EditFunctionFound(s, new_content) ==
    IF ~s.ret THEN Out(s.st, FALSE, "not found")
    ELSE IF ~new_content.some THEN Out(s.st, TRUE, "navigated")
    ELSE ReplaceRegion(s.st, new_content.text, TRUE)

EditFunctionOpened(o, function_name, new_content) ==
    IF ~o.ret THEN Out(o.st, FALSE, "not opened")
    ELSE EditFunctionFound(Search(o.st, FuncPat(function_name)), new_content)

EditFunction(st, file_path, function_name, new_content) ==
    EditFunctionOpened(OpenFile(st, file_path), function_name, new_content)

ImportPrefixes == {<<"import", " ">>, <<"from", " ">>}

\* the 1-based number of the last line that starts an import, 0 if none
LastImportLine(lines) ==
    LET is == {i \in 1..Len(lines) :
                  \E p \in ImportPrefixes : StartsWith(strip(lines[i]), p)}
    IN  IF is = {} THEN 0 ELSE CHOOSE i \in is : \A j \in is : j <= i

\* if last_import_line == 0: last_import_line = 1
InsertionLine(lines) ==
    IF LastImportLine(lines) = 0 THEN 1 ELSE LastImportLine(lines)

Inserted(sv) == Out(sv.st, sv.ret, "inserted")

\* insert_text's result is not looked at
AddImportAt(g, import_statement) ==
    IF ~g.ret THEN Out(g.st, FALSE, "no line")
    ELSE Inserted(SaveFile(InsertText(g.st, import_statement \o <<NL>>).st))

\* An add_import step without the check for an existing statement.
AddImportToUnchecked(c, import_statement) ==
    IF ~c.ok \/ c.val = <<>> THEN Out(c.st, FALSE, "no content")
    ELSE AddImportAt(GotoLine(c.st, InsertionLine(split(c.val))),
                     import_statement)

AddImportTo(c, import_statement) ==
    IF ~c.ok \/ c.val = <<>> THEN Out(c.st, FALSE, "no content")
    ELSE IF Contains(import_statement, c.val) THEN Out(c.st, TRUE, "exists")
    ELSE AddImportAt(GotoLine(c.st, InsertionLine(split(c.val))),
                     import_statement)

AddImportOpened(o, import_statement) ==
    IF ~o.ret THEN Out(o.st, FALSE, "not opened")
    ELSE AddImportTo(GetCurrentFileContent(o.st), import_statement)

AddImport(st, file_path, import_statement) ==
    AddImportOpened(OpenFile(st, file_path), import_statement)

InsertAfterInserted(i) ==
    IF ~i.ret THEN Out(i.st, FALSE, "not inserted")
    ELSE Inserted(SaveFile(i.st))

\* An insert_after_pattern that types its text before it looks at the
\* result of the search.
InsertAfterFoundTyped(s, new_content) ==
    IF ~s.ret
    THEN Out(InsertText(s.st, <<NL>> \o new_content).st, FALSE, "not found")
    ELSE InsertAfterInserted(
             InsertText(ExecuteCommand(s.st, CmdNormalEnd).st,
                        <<NL>> \o new_content))

\* the result of normal! $ is not looked at
InsertAfterFound(s, new_content) ==
    IF ~s.ret THEN Out(s.st, FALSE, "not found")
    ELSE InsertAfterInserted(
             InsertText(ExecuteCommand(s.st, CmdNormalEnd).st,
                        <<NL>> \o new_content))

InsertAfterOpened(o, pattern, new_content) ==
    IF ~o.ret THEN Out(o.st, FALSE, "not opened")
    ELSE InsertAfterFound(Search(o.st, pattern), new_content)

InsertAfterPattern(st, file_path, pattern, new_content) ==
    InsertAfterOpened(OpenFile(st, file_path), pattern, new_content)

EditClassMethod(m, new_method_content) ==
    IF ~m.ret THEN Out(m.st, FALSE, "method not found")
    ELSE IF ~new_method_content.some THEN Out(m.st, TRUE, "navigated")
    ELSE ReplaceRegion(m.st, new_method_content.text, FALSE)

\* A method search that does not leave the region of the class.
InClass(m, s) ==
    IF m.ret /\ CurBuf(m.st).row > FindEnd(ViewLines(CurBuf(s.st)),
                                           CurBuf(s.st).row)
    THEN Ret(m.st, FALSE) ELSE m

EditClassFoundScoped(s, method_name, new_method_content) ==
    IF ~s.ret THEN Out(s.st, FALSE, "not found")
    ELSE IF ~method_name.some THEN Out(s.st, TRUE, "navigated")
    ELSE EditClassMethod(
             InClass(Search(ExecuteCommand(s.st, CmdNormalJ0).st,
                            MethodPat(method_name.name)), s),
             new_method_content)

\* the result of normal! j0 is not looked at
EditClassFound(s, method_name, new_method_content) ==
    IF ~s.ret THEN Out(s.st, FALSE, "not found")
    ELSE IF ~method_name.some THEN Out(s.st, TRUE, "navigated")
    ELSE EditClassMethod(
             Search(ExecuteCommand(s.st, CmdNormalJ0).st,
                    MethodPat(method_name.name)),
             new_method_content)

EditClassOpened(o, class_name, method_name, new_method_content) ==
    IF ~o.ret THEN Out(o.st, FALSE, "not opened")
    ELSE EditClassFound(Search(o.st, ClassPat(class_name)), method_name,
                        new_method_content)

EditClass(st, file_path, class_name, method_name, new_method_content) ==
    EditClassOpened(OpenFile(st, file_path), class_name, method_name,
                    new_method_content)

\* A create_file step that hands the new file to the change log.
CreateFilledRecorded(r, file_path) ==
    IF ~r.ret THEN Out(r.st, FALSE, "not replaced")
    ELSE Out([r.st EXCEPT !.log = Append(@,
                 ChangeRecord(file_path, <<>>, VimWrite(CurBuf(r.st).lines)))],
             TRUE, "created")

\* create_file after the buffer is filled: the result of write is not
\* looked at
CreateFilled(r, file_path) ==
    IF ~r.ret THEN Out(r.st, FALSE, "not replaced")
    ELSE Out(ExecuteCommand(r.st, CmdWriteTo(file_path)).st, TRUE, "created")

\* the result of enew is not looked at
CreateFile(st, file_path, content) ==
    CreateFilled(ReplaceRange(ExecuteCommand(st, CmdEnew).st, 1, 1,
                              split(content)), file_path)

----------------------------------------------------------------------------
(* The change log as text: format_changes_for_chat and the unified diff    *)
(* of difflib it is built on.  A diff line is a tag (" ", "-" or "+")      *)
(* followed by the line; the ranges of a hunk header are left out.         *)

\* text.splitlines()
SplitLines(t) ==
    IF t = <<>> THEN <<>>
    ELSE IF t[Len(t)] = NL THEN split(SubSeq(t, 1, Len(t) - 1))
    ELSE split(t)

Tagged(tag, ls) == [i \in 1..Len(ls) |-> <<tag>> \o ls[i]]

\* the blocks <<i, j, k>> of k lines that a has at i and b has at j
MatchingBlocks(a, b) ==
    {t \in (1..Len(a)) \X (1..Len(b)) \X (1..Len(a)) :
        /\ t[1] + t[3] - 1 <= Len(a) /\ t[2] + t[3] - 1 <= Len(b)
        /\ SubSeq(a, t[1], t[1] + t[3] - 1) = SubSeq(b, t[2], t[2] + t[3] - 1)}

\* SequenceMatcher.find_longest_match: the longest block, the earliest in
\* a and then in b among the longest
LongestMatch(blocks) ==
    CHOOSE t \in blocks : \A u \in blocks :
        \/ u[3] < t[3]
        \/ u[3] = t[3] /\ (t[1] < u[1] \/ (t[1] = u[1] /\ t[2] <= u[2]))

\* the lines of b against those of a: what is left of the longest match,
\* the match, what is right of it; where nothing matches, the lines of a
\* removed and those of b added
RECURSIVE Compared(_, _)
Compared(a, b) ==
    IF MatchingBlocks(a, b) = {} THEN Tagged("-", a) \o Tagged("+", b)
    ELSE LET m == LongestMatch(MatchingBlocks(a, b))
         IN  Compared(SubSeq(a, 1, m[1] - 1), SubSeq(b, 1, m[2] - 1))
                 \o Tagged(" ", SubSeq(a, m[1], m[1] + m[3] - 1))
                 \o Compared(SubSeq(a, m[1] + m[3], Len(a)),
                             SubSeq(b, m[2] + m[3], Len(b)))

\* the changed lines with up to three lines of context on either side
Hunk(ds) ==
    LET changed == {i \in 1..Len(ds) : ds[i][1] # " "}
        lo == CHOOSE i \in changed : \A j \in changed : i <= j
        hi == CHOOSE i \in changed : \A j \in changed : j <= i
    IN  SubSeq(ds, Max(1, lo - 3), Min(Len(ds), hi + 3))

\* difflib.unified_diff(original, new, fromfile, tofile, lineterm=''):
\* nothing at all when the lines are the same
UnifiedDiff(original, new, file_path) ==
    IF original = new THEN <<>>
    ELSE << <<"---", " ", "Original:", " ", file_path>>,
            <<"+++", " ", "Modified:", " ", file_path>>,
            <<"@@">> >> \o Hunk(Compared(original, new))

\* '\n'.join(diff) for one record
DiffText(change) ==
    join(UnifiedDiff(SplitLines(change.original), SplitLines(change.new),
                     change.file))

NoChanges == <<"No changes recorded.">>

\* '\n\n'.join(result)
RECURSIVE JoinBlank(_)
JoinBlank(ts) ==
    IF ts = <<>> THEN <<>>
    ELSE IF Len(ts) = 1 THEN ts[1]
    ELSE ts[1] \o <<NL, NL>> \o JoinBlank(Tail(ts))

FormatChangesForChat(st) ==
    IF st.log = <<>> THEN NoChanges
    ELSE JoinBlank([i \in 1..Len(st.log) |-> DiffText(st.log[i])])

----------------------------------------------------------------------------
(* integration.py: each function returns a dict, here [success, message,   *)
(* changes]; the message is the text before the names it mentions.         *)

Reply(success, message, changes) ==
    [given |-> TRUE, success |-> success, message |-> message,
     changes |-> changes]

NoReply == [given |-> FALSE, success |-> FALSE, message |-> "", changes |-> <<>>]

\* the operation raised: VimOperations catches nothing
Raises == {"IndexError", "AttributeError"}

\* except Exception as e: ... "changes": ""
Excepted(st, note) ==
    [st |-> st, reply |-> Reply(FALSE, "Error", <<>>), note |-> note]

\* return {"success": ..., "message": ..., "changes": format_changes_for_chat()}
Returned(st, success, message, note) ==
    [st |-> st, reply |-> Reply(success, message, FormatChangesForChat(st)),
     note |-> note]

\* edit_file after an operation: its message whatever the result
Answered(o, message) ==
    IF o.note \in Raises THEN Excepted(o.st, o.note)
    ELSE Returned(o.st, o.ret, message, o.note)

\* add_import and insert_after_pattern after the operation
AnsweredEither(o, done, failed) ==
    IF o.note \in Raises THEN Excepted(o.st, o.note)
    ELSE Returned(o.st, o.ret, IF o.ret THEN done ELSE failed, o.note)

\* vim.save_file(), its result not looked at
WholeSaved(r) == Returned(SaveFile(r.st).st, r.ret, "Edited file", "replaced")

\* len(vim.get_current_file_content().split('\n')) + 1: None has no split
WholeRead(c, content) ==
    IF ~c.ok THEN Excepted(c.st, "AttributeError")
    ELSE WholeSaved(ReplaceRange(c.st, 1, Len(split(c.val)) + 1,
                                 split(content)))

\* the last branch of edit_file, the result of open_file not looked at
EditWhole(o, content) ==
    IF ~content.some THEN Returned(o.st, TRUE, "Opened file", "opened")
    ELSE WholeRead(GetCurrentFileContent(o.st), content.text)

EditFile(st, file_path, function_name, class_name, method_name, content) ==
    IF function_name.some
    THEN Answered(EditFunction(st, file_path, function_name.name, content),
                  "Edited function")
    ELSE IF class_name.some /\ method_name.some
    THEN Answered(EditClass(st, file_path, class_name.name, method_name,
                            content), "Edited method")
    ELSE IF class_name.some
    THEN Answered(EditClass(st, file_path, class_name.name, NoMethod, None),
                  "Navigated to class")
    ELSE IF ~st.disk[file_path].exists /\ content.some
    THEN Answered(CreateFile(st, file_path, content.text), "Created file")
    ELSE EditWhole(OpenFile(st, file_path), content)

IntegrationAddImport(st, file_path, import_statement) ==
    AnsweredEither(AddImport(st, file_path, import_statement),
                   "Added import", "Failed to add import")

IntegrationInsertAfterPattern(st, file_path, pattern, new_content) ==
    AnsweredEither(InsertAfterPattern(st, file_path, pattern, new_content),
                   "Inserted content after pattern",
                   "Failed to insert content after pattern")

----------------------------------------------------------------------------
(* The lines the region locator is tried on *)

DefF  == <<"def", " ", "f", "():">>
Ret1  == <<" ", " ", " ", " ", "return", " ", "1">>
DefG  == <<"def", " ", "g", "():">>
Ret2  == <<" ", " ", " ", " ", "return", " ", "2">>
Blank2 == <<" ", " ">>
Ind2  == <<" ", " ", "pass">>

\* lines at indentation 0, 2 and 4, an empty line and a line of spaces
LocVocab == {DefF, Ind2, Ret1, Empty, Blank2}

Example1 == <<DefF, Ret1, Empty, DefG, Ret2>>

SeqsUpTo(S, n) == UNION {[1..k -> S] : k \in 0..n}

NoResult == [start_line |-> 0, end_line |-> 0]
NoLoc == [lines |-> <<>>, def_line |-> 0, done |-> TRUE, res |-> NoResult]

----------------------------------------------------------------------------
(* The files and arguments the operations are tried on *)

X == <<"x">>
Y == <<"y">>
DefFb == <<"def", " ", "f", BS, "():">>
Body == <<" ", " ", "pass">>
ImportA == <<"import", " ", "a">>
FromB == <<"from", " ", "b", " ", "import", " ", "c">>
ImportOs == <<"import", " ", "os">>
ClassCb == <<"class", " ", "C", BS, ":">>
DefMb == <<" ", " ", "def", " ", "m", BS, "():">>
MBody == <<" ", " ", " ", " ", "pass">>
DefMTop == <<"def", " ", "m", BS, "():">>

\* a module with an import, a function, a class with a method, a statement
FileMix == File(VimWrite(<<ImportA, DefFb, Body, ClassCb, DefMb, MBody, X>>))
FileImp == File(VimWrite(<<ImportA, X>>))

EditVocab == {X, DefFb, Body, Empty, ClassCb, DefMb, MBody}
ScopeVocab == {X, Body, ClassCb, DefMb, MBody, DefMTop}
ImportVocab == {ImportA, FromB, ImportOs, X, Empty}
BufVocab == {X, Body, Empty}

NewBody == join(<<DefFb, <<" ", " ", "return">> >>)

NoCall == [op |-> "none", path |-> "", name |-> "", arg |-> None,
           n1 |-> 0, n2 |-> 0, ret |-> FALSE, note |-> ""]

Rec(op, path, name, arg, n1, n2, ret, note) ==
    [op |-> op, path |-> path, name |-> name, arg |-> arg, n1 |-> n1,
     n2 |-> n2, ret |-> ret, note |-> note]

----------------------------------------------------------------------------
(* Specifications *)

vars == <<loc, bins, osr, pkgs, slow, stubborn, shared, snaps, listen, alive, spawns, sproc,
          sigs, nvim,
          conn, hasorig, orig, log, disk, hidden, cur, bufs, did, reply,
          last, prev, steps>>

editor == <<bins, osr, pkgs, slow, stubborn, shared, snaps, listen, alive, spawns, sproc,
            sigs, nvim,
            conn, hasorig, orig, log, disk, hidden, cur, bufs, did, reply,
            last, prev, steps>>

\* VimMicroAgent.__init__ on a host: nothing spawned, nothing attached
Fresh(b, o, k, sl, li, hid, dsk) ==
    [bins |-> b, osr |-> o, pkgs |-> k, slow |-> sl, stubborn |-> FALSE,
     shared |-> FALSE, snaps |-> [p \in Paths |-> Unread],
     listen |-> li, alive |-> {}, spawns |-> 0, sproc |-> 0, sigs |-> <<>>,
     nvim |-> "none", conn |-> FALSE,
     hasorig |-> FALSE, orig |-> <<>>, log |-> <<>>, disk |-> dsk,
     hidden |-> hid, cur |-> NoName, bufs |-> FreshBufs, did |-> Idle]

\* a host with nvim on the PATH and nothing listening yet
Plain(hid, dsk) == Fresh({"nvim"}, "debian", {}, FALSE, NoListener, hid, dsk)

Holds(st) ==
    /\ bins = st.bins /\ osr = st.osr /\ pkgs = st.pkgs /\ slow = st.slow
    /\ stubborn = st.stubborn /\ sigs = st.sigs /\ did = st.did
    /\ shared = st.shared /\ snaps = st.snaps
    /\ listen = st.listen /\ alive = st.alive /\ spawns = st.spawns
    /\ sproc = st.sproc /\ nvim = st.nvim /\ conn = st.conn
    /\ hasorig = st.hasorig /\ orig = st.orig /\ log = st.log
    /\ disk = st.disk /\ hidden = st.hidden /\ cur = st.cur
    /\ bufs = st.bufs

Commit(st) ==
    /\ bins' = st.bins /\ osr' = st.osr /\ pkgs' = st.pkgs /\ slow' = st.slow
    /\ stubborn' = st.stubborn /\ sigs' = st.sigs /\ did' = st.did
    /\ shared' = st.shared /\ snaps' = st.snaps
    /\ listen' = st.listen /\ alive' = st.alive /\ spawns' = st.spawns
    /\ sproc' = st.sproc /\ nvim' = st.nvim /\ conn' = st.conn
    /\ hasorig' = st.hasorig /\ orig' = st.orig /\ log' = st.log
    /\ disk' = st.disk /\ hidden' = st.hidden /\ cur' = st.cur
    /\ bufs' = st.bufs

InitLocate ==
    /\ loc \in {[lines |-> ls, def_line |-> d, done |-> FALSE, res |-> NoResult] :
                   ls \in (SeqsUpTo(LocVocab, MaxLocLen) \ {<<>>}) \cup {Example1},
                   d \in 1..MaxLocLen}
    /\ loc.def_line <= Len(loc.lines)
    /\ Holds(Plain(TRUE, [p \in Paths |-> NoFile]))
    /\ last = NoCall /\ prev = NoCall /\ reply = NoReply /\ steps = 0

Locate ==
    /\ ~loc.done
    /\ loc' = [loc EXCEPT !.done = TRUE,
                          !.res = [start_line |-> loc.def_line,
                                   end_line |-> FindEnd(loc.lines, loc.def_line)]]
    /\ UNCHANGED editor

SpecLocate == InitLocate /\ [][Locate]_vars

\* a session on a module, the other path free or taken
Init ==
    /\ loc = NoLoc
    /\ \E hid \in BOOLEAN, b \in {NoFile, FileImp}, li \in {NoListener, External} :
          Holds(Fresh({"nvim"}, "debian", {}, FALSE, li, hid,
                      [p \in Paths |-> IF p = "a.py" THEN FileMix ELSE b]))
    /\ last = NoCall /\ prev = NoCall /\ reply = NoReply /\ steps = 0

\* one call of a method or operation: its effect, and what it was
Call(st, rec) ==
    /\ loc.done
    /\ steps < MaxOps
    /\ Commit(st)
    /\ last' = rec
    /\ prev' = last
    /\ reply' = NoReply
    /\ steps' = steps + 1
    /\ UNCHANGED loc

\* a call that returns a value, and one that also logs a message
CallRet(r, op, path, name, arg, n1, n2) ==
    Call(r.st, Rec(op, path, name, arg, n1, n2, r.ret, ""))

CallOut(r, op, path, name, arg, n1, n2) ==
    Call(r.st, Rec(op, path, name, arg, n1, n2, r.ret, r.note))

DoStartServer ==
    CallRet(StartServer(State), "start_server", "", "", None, 0, 0)

DoStopServer ==
    Call(StopServer(State), Rec("stop_server", "", "", None, 0, 0, TRUE, ""))

DoConnect ==
    CallRet(Connect(State), "connect", "", "", None, 0, 0)

DoDisconnect ==
    Call(Disconnect(State), Rec("disconnect", "", "", None, 0, 0, TRUE, ""))

DoOpenFile ==
    \E p \in Paths :
        CallRet(OpenFile(State, p), "open_file", p, "", None, 0, 0)

DoGotoLine ==
    \E n \in {3} :
        CallRet(GotoLine(State, n), "goto_line", "", "", None, n, 0)

DoSearch ==
    \E w \in {"x"} :
        CallRet(Search(State, LitPat(w)), "search", "", w, None, 0, 0)

DoInsertText ==
    \E t \in {Y} :
        CallRet(InsertText(State, t), "insert_text", "", "", Some(t), 0, 0)

DoReplaceLine ==
    \E n \in {1} :
        CallRet(ReplaceLine(State, n, Y), "replace_line", "", "", Some(Y), n, 0)

DoReplaceRange ==
    \E s \in {2}, e \in {3} :
        CallRet(ReplaceRange(State, s, e, <<Y>>),
                "replace_range", "", "", Some(Y), s, e)

DoSaveFile ==
    CallRet(SaveFile(State), "save_file", "", "", None, 0, 0)

DoEditFunction ==
    \E p \in {"a.py"}, b \in {None, Some(NewBody)} :
        CallOut(EditFunction(State, p, "f", b), "edit_function", p, "f", b, 0, 0)

DoEditClass ==
    \E p \in {"a.py"}, a \in {<<NoMethod, None>>, <<Method("m"), None>>,
                              <<Method("m"), Some(NewBody)>>} :
        CallOut(EditClass(State, p, "C", a[1], a[2]),
                "edit_class", p, a[1].name, a[2], 0, 0)

DoAddImport ==
    \E p \in {"a.py"} :
        CallOut(AddImport(State, p, ImportOs),
                "add_import", p, "", Some(ImportOs), 0, 0)

DoInsertAfterPattern ==
    \E p \in {"a.py"} :
        CallOut(InsertAfterPattern(State, p, LitPat("x"), Y),
                "insert_after_pattern", p, "x", Some(Y), 0, 0)

DoCreateFile ==
    \E p \in Paths :
        CallOut(CreateFile(State, p, Y), "create_file", p, "", Some(Y), 0, 0)

Next ==
    \/ DoStartServer \/ DoStopServer \/ DoConnect \/ DoDisconnect
    \/ DoOpenFile \/ DoGotoLine \/ DoSearch \/ DoInsertText
    \/ DoReplaceLine \/ DoReplaceRange \/ DoSaveFile
    \/ DoEditFunction \/ DoEditClass \/ DoAddImport
    \/ DoInsertAfterPattern \/ DoCreateFile

Spec == Init /\ [][Next]_vars

\* One region edit or insertion on each module of up to MaxFileLen lines.
InitEdit ==
    /\ loc = NoLoc
    /\ \E ls \in SeqsUpTo(EditVocab, MaxFileLen) :
          Holds(Plain(TRUE, [p \in Paths |-> IF p = "a.py" THEN File(VimWrite(ls))
                                             ELSE NoFile]))
    /\ last = NoCall /\ prev = NoCall /\ reply = NoReply /\ steps = 0

NextEdit ==
    \/ steps = 0 /\ DoEditFunction
    \/ steps = 0 /\ DoEditClass
    \/ steps = 0 /\ DoInsertAfterPattern

SpecEdit == InitEdit /\ [][NextEdit]_vars

\* A client that goes on calling buffer operations, on an editor that may
\* die while the session is attached.  The calls are not counted: a call
\* on a dead session leaves everything as it is.
InitCrash ==
    /\ loc = NoLoc
    /\ \E hid \in BOOLEAN, li \in {NoListener, External},
          ls \in SeqsUpTo({X}, 2) :
          Holds(Fresh({"nvim"}, "debian", {}, FALSE, li, hid,
                      [p \in Paths |-> IF p = "a.py" THEN File(VimWrite(ls))
                                       ELSE NoFile]))
    /\ last = NoCall /\ prev = NoCall /\ reply = NoReply /\ steps = 0

Recall(r, op, path, name, n1) ==
    /\ Commit(r.st)
    /\ last' = Rec(op, path, name, None, n1, 0, r.ret, "")
    /\ prev' = last
    /\ reply' = NoReply
    /\ UNCHANGED <<loc, steps>>

OpenFileAgain ==
    \E p \in Paths : Recall(OpenFile(State, p), "open_file", p, "", 0)

GotoLineAgain ==
    \E n \in {1, 2} : Recall(GotoLine(State, n), "goto_line", "", "", n)

SearchAgain ==
    \E w \in {"x"} : Recall(Search(State, LitPat(w)), "search", "", w, 0)

ContentAgain ==
    Recall(Result(GetCurrentFileContent(State)), "get_current_file_content",
           "", "", 0)

BufferOpAgain == OpenFileAgain \/ GotoLineAgain \/ SearchAgain \/ ContentAgain

\* the editor dies, at most MaxOps times over
EditorDies ==
    /\ nvim = "live" /\ listen.by # "none" /\ spawns < MaxOps
    /\ Commit(Crashed(State))
    /\ UNCHANGED <<loc, last, prev, reply, steps>>

NextCrash ==
    \/ OpenFileAgain \/ GotoLineAgain \/ SearchAgain \/ ContentAgain
    \/ EditorDies

\* a buffer operation called while the session is dead
CallOnDead == nvim = "dead" /\ BufferOpAgain

\* the client does not stop calling buffer operations when the editor has
\* died
SpecCrash == InitCrash /\ [][NextCrash]_vars /\ WF_vars(CallOnDead)

\* edit_class on each module of up to MaxFileLen lines that may have a
\* function named as the method
InitScope ==
    /\ loc = NoLoc
    /\ \E ls \in SeqsUpTo(ScopeVocab, MaxFileLen) :
          Holds(Plain(TRUE, [p \in Paths |-> IF p = "a.py" THEN File(VimWrite(ls))
                                             ELSE NoFile]))
    /\ last = NoCall /\ prev = NoCall /\ reply = NoReply /\ steps = 0

NextScope == steps = 0 /\ DoEditClass

SpecScope == InitScope /\ [][NextScope]_vars

\* edit_function and edit_class on an editor that may have another client
InitShared ==
    /\ loc = NoLoc
    /\ \E ls \in SeqsUpTo(EditVocab, MaxFileLen), sh \in BOOLEAN :
          Holds([Plain(TRUE, [p \in Paths |-> IF p = "a.py"
                                              THEN File(VimWrite(ls))
                                              ELSE NoFile])
                    EXCEPT !.shared = sh])
    /\ last = NoCall /\ prev = NoCall /\ reply = NoReply /\ steps = 0

NextShared ==
    \/ steps = 0 /\ DoEditFunction
    \/ steps = 0 /\ DoEditClass

SpecShared == InitShared /\ [][NextShared]_vars

\* format_changes_for_chat: the text it returns
DoFormatChangesForChat ==
    Call(State, Rec("format_changes_for_chat", "", "",
                    Some(FormatChangesForChat(State)), 0, 0, TRUE, ""))

\* Saves and the text of the change log, on files that end with a newline
\* and files that do not.
InitLog ==
    /\ loc = NoLoc
    /\ \E hid \in BOOLEAN, ls \in SeqsUpTo({X, Y}, 2) \ {<<>>},
          eol \in BOOLEAN, b \in {NoFile, FileImp} :
          Holds(Plain(hid, [p \in Paths |->
                    IF p = "a.py"
                    THEN File(IF eol THEN VimWrite(ls) ELSE join(ls))
                    ELSE b]))
    /\ last = NoCall /\ prev = NoCall /\ reply = NoReply /\ steps = 0

NextLog ==
    \/ DoOpenFile \/ DoReplaceLine \/ DoSaveFile \/ DoInsertAfterPattern
    \/ DoFormatChangesForChat

SpecLog == InitLog /\ [][NextLog]_vars

\* add_import, twice, on each module of up to MaxFileLen lines.
InitImport ==
    /\ loc = NoLoc
    /\ \E ls \in SeqsUpTo(ImportVocab, MaxFileLen) :
          Holds(Plain(TRUE, [p \in Paths |-> IF p = "a.py" THEN File(VimWrite(ls))
                                             ELSE NoFile]))
    /\ last = NoCall /\ prev = NoCall /\ reply = NoReply /\ steps = 0

NextImport == steps < 2 /\ DoAddImport

SpecImport == InitImport /\ [][NextImport]_vars

\* One replace_range on each opened buffer of up to MaxBufLen lines.
InitReplace ==
    /\ loc = NoLoc
    /\ \E ls \in SeqsUpTo(BufVocab, MaxBufLen) \ {<<>>} :
          LET o == OpenFile(Plain(TRUE, [p \in Paths |->
                        IF p = "a.py" THEN File(VimWrite(ls)) ELSE NoFile]), "a.py")
          IN  Holds(o.st)
    /\ last = Rec("open_file", "a.py", "", None, 0, 0, TRUE, "")
    /\ prev = NoCall /\ reply = NoReply /\ steps = 0

DoReplaceRangeWide ==
    \E s \in 1..(MaxBufLen + 1), e \in 0..(MaxBufLen + 1),
       t \in {<<>>, <<Y>>, <<Y, Y>>} :
        CallRet(ReplaceRange(State, s, e, t), "replace_range", "", "",
                IF t = <<>> THEN None ELSE Some(join(t)), s, e)

NextReplace == steps = 0 /\ DoReplaceRangeWide

SpecReplace == InitReplace /\ [][NextReplace]_vars

\* The supervisor on every kind of host.
InitHost ==
    /\ loc = NoLoc
    /\ \E b \in SUBSET {"nvim", "vim"}, o \in {"debian", "other"},
          k \in SUBSET {"neovim", "vim"}, sl \in BOOLEAN, sb \in BOOLEAN,
          li \in {NoListener, External} :
          Holds([Fresh(b, o, k, sl, li, TRUE,
                       [p \in Paths |-> IF p = "a.py" THEN FileImp ELSE NoFile])
                    EXCEPT !.stubborn = sb])
    /\ last = NoCall /\ prev = NoCall /\ reply = NoReply /\ steps = 0

\* a call of an integration function: its effect and the dict it returns
CallReply(a, op, path, name, arg) ==
    /\ loc.done
    /\ steps < MaxOps
    /\ Commit(a.st)
    /\ last' = Rec(op, path, name, arg, 0, 0, a.reply.success, a.note)
    /\ prev' = last
    /\ reply' = a.reply
    /\ steps' = steps + 1
    /\ UNCHANGED loc

\* edit_file with a function, a class and method, a class, or a path only
DoEditFile ==
    \E p \in Paths, c \in {None, Some(Y)},
       t \in {<<Method("f"), NoMethod, NoMethod>>,
              <<NoMethod, Method("C"), Method("m")>>,
              <<NoMethod, Method("C"), NoMethod>>,
              <<NoMethod, NoMethod, NoMethod>>} :
        CallReply(EditFile(State, p, t[1], t[2], t[3], c), "edit_file", p,
                  IF t[1].some THEN "f" ELSE IF t[3].some THEN "m"
                  ELSE IF t[2].some THEN "C" ELSE "", c)

DoIntegrationAddImport ==
    \E p \in {"a.py"} :
        CallReply(IntegrationAddImport(State, p, ImportOs),
                  "integration.add_import", p, "", Some(ImportOs))

DoIntegrationInsertAfterPattern ==
    \E p \in {"a.py"} :
        CallReply(IntegrationInsertAfterPattern(State, p, LitPat("x"), Y),
                  "integration.insert_after_pattern", p, "x", Some(Y))

DoExecuteCommand ==
    \E q \in {CmdGoto(1), CmdEchoLine} :
        Call(ExecuteCommand(State, q).st,
             Rec("execute_command", "", q.req, None, 0, 0,
                 ExecuteCommand(State, q).ok, ""))

DoGetCurrentFileContent ==
    Call(GetCurrentFileContent(State).st,
         Rec("get_current_file_content", "", "",
             IF GetCurrentFileContent(State).ok
             THEN Some(GetCurrentFileContent(State).val) ELSE None,
             0, 0, GetCurrentFileContent(State).ok, ""))

NextHost ==
    \/ DoStartServer \/ DoStopServer \/ DoConnect \/ DoDisconnect
    \/ DoOpenFile \/ DoSaveFile

SpecHost == InitHost /\ [][NextHost]_vars

\* The session client on hosts where an editor can be reached, can be
\* started, cannot be started, or where the port is taken by something else.
InitClient ==
    /\ loc = NoLoc
    /\ \E b \in SUBSET {"nvim", "vim"}, k \in {{}, {"neovim"}}, sl \in BOOLEAN,
          li \in {NoListener, External, Foreign} :
          Holds(Fresh(b, "debian", k, sl, li, TRUE,
                      [p \in Paths |-> IF p = "a.py" THEN FileImp ELSE NoFile]))
    /\ last = NoCall /\ prev = NoCall /\ reply = NoReply /\ steps = 0

NextClient ==
    \/ DoConnect \/ DoDisconnect \/ DoStopServer
    \/ DoOpenFile \/ DoGotoLine \/ DoSearch \/ DoInsertText
    \/ DoReplaceLine \/ DoReplaceRange \/ DoSaveFile
    \/ DoExecuteCommand \/ DoGetCurrentFileContent

SpecClient == InitClient /\ [][NextClient]_vars

\* start_server, connect, stop_server and the probe on hosts of every family, with and without an
\* editor, with and without packages to install.
InitInstall ==
    /\ loc = NoLoc
    /\ \E b \in SUBSET {"nvim", "vim"},
          o \in {"debian", "ubuntu", "alpine", "other"},
          k \in SUBSET {"neovim", "vim"}, sl \in BOOLEAN,
          li \in {NoListener, External} :
          Holds(Fresh(b, o, k, sl, li, TRUE,
                      [p \in Paths |-> IF p = "a.py" THEN FileImp ELSE NoFile]))
    /\ last = NoCall /\ prev = NoCall /\ reply = NoReply /\ steps = 0

DoGetServerStatus ==
    CallRet(GetServerStatus(State), "get_server_status", "", "", None, 0, 0)

NextInstall ==
    DoStartServer \/ DoConnect \/ DoStopServer \/ DoGetServerStatus

SpecInstall == InitInstall /\ [][NextInstall]_vars

\* The integration functions, on a host where the editor starts and on one
\* where there is none to start.
InitIntegration ==
    /\ loc = NoLoc
    /\ \E b \in {{}, {"nvim"}}, hid \in BOOLEAN, f \in {NoFile, FileImp} :
          Holds(Fresh(b, "debian", {}, FALSE, NoListener, hid,
                      [p \in Paths |-> IF p = "a.py" THEN FileMix ELSE f]))
    /\ last = NoCall /\ prev = NoCall /\ reply = NoReply /\ steps = 0

NextIntegration ==
    \/ DoEditFile \/ DoIntegrationAddImport \/ DoIntegrationInsertAfterPattern
    \/ DoStopServer

SpecIntegration == InitIntegration /\ [][NextIntegration]_vars

\* One or two operations of VimOperations and edit_file on hosts where the
\* start of the server fails: no editor to install, or an editor slow to
\* listen.
InitOnce ==
    /\ loc = NoLoc
    /\ \E b \in {{}, {"nvim"}}, sl \in BOOLEAN, hid \in BOOLEAN :
          Holds(Fresh(b, "debian", {}, sl, NoListener, hid,
                      [p \in Paths |-> IF p = "a.py" THEN FileMix ELSE NoFile]))
    /\ last = NoCall /\ prev = NoCall /\ reply = NoReply /\ steps = 0

NextOnce ==
    \/ steps < 2 /\ DoEditFunction
    \/ steps < 2 /\ DoEditClass
    \/ steps < 2 /\ DoAddImport
    \/ steps < 2 /\ DoInsertAfterPattern
    \/ steps < 2 /\ DoCreateFile
    \/ steps < 2 /\ DoEditFile

SpecOnce == InitOnce /\ [][NextOnce]_vars

----------------------------------------------------------------------------
(* Claims *)

IsBlank(line) == strip(line) = <<>>

IsPrefix(s, t) == Len(s) <= Len(t) /\ SubSeq(t, 1, Len(s)) = s

\* the lines open_file shows for path p: the buffer the editor still
\* holds for it, or else the file as read from disk
PreLines(p) ==
    IF p # cur /\ bufs[p].loaded THEN ViewLines(bufs[p])
    ELSE ViewLines([lines |-> VimRead(disk[p].text)])

\* the first line after d that is not blank and indented no deeper than
\* line d, or one past the last line
Terminator(ls, d) ==
    LET stops == {j \in (d + 1)..Len(ls) :
                     ~IsBlank(ls[j]) /\ Indentation(ls[j]) <= Indentation(ls[d])}
    IN  IF stops = {} THEN Len(ls) + 1
        ELSE CHOOSE j \in stops : \A k \in stops : j <= k

\* C1 as stated: the located region starts at def_line and its end_line is
\* the first line outside the region (every line in [def_line+1, end_line)
\* is blank or indented deeper than the definition, and line end_line is a
\* non-blank line indented no deeper or lies past the last line); for
\* Example 1 the result is (1, 4).
C1_EndIsFirstLineOutside ==
    (loc.done /\ loc.def_line > 0) =>
        LET ls == loc.lines
            d == loc.def_line
            e == loc.res.end_line
        IN  /\ loc.res.start_line = d
            /\ e > d /\ e <= Len(ls) + 1
            /\ \A j \in (d + 1)..(e - 1) :
                  IsBlank(ls[j]) \/ Indentation(ls[j]) > Indentation(ls[d])
            /\ \/ e = Len(ls) + 1
               \/ ~IsBlank(ls[e]) /\ Indentation(ls[e]) <= Indentation(ls[d])
            /\ (ls = Example1 /\ d = 1) => e = 4

\* C1 amended: the located region starts at def_line and its end_line is
\* the last line of the region (every line in [def_line+1, end_line] is
\* blank or indented deeper than the definition, and end_line is the last
\* line or the line after it is non-blank and indented no deeper); for
\* Example 1 the result is (1, 3).
C1_EndIsLastLineInside ==
    (loc.done /\ loc.def_line > 0) =>
        LET ls == loc.lines
            d == loc.def_line
            e == loc.res.end_line
        IN  /\ loc.res.start_line = d
            /\ e >= d /\ e <= Len(ls)
            /\ \A j \in (d + 1)..e :
                  IsBlank(ls[j]) \/ Indentation(ls[j]) > Indentation(ls[d])
            /\ \/ e = Len(ls)
               \/ ~IsBlank(ls[e + 1])
                    /\ Indentation(ls[e + 1]) <= Indentation(ls[d])
            /\ (ls = Example1 /\ d = 1) => e = 3

C1_Example1Located ==
    /\ loc.done /\ loc.lines = Example1 /\ loc.def_line = 1
    /\ loc.res = [start_line |-> 1, end_line |-> 3]

RegionPat(c) == IF c.op = "edit_function" THEN FuncPat(c.name) ELSE MethodPat(c.name)

RegionReplaced(c) ==
    c.op \in {"edit_function", "edit_class"} /\ c.ret /\ c.note = "replaced"

\* C2: a region edit with a new body replaces exactly the lines from the
\* definition line up to, not including, the first later non-blank line
\* indented no deeper than it (or through the end of the file) with the
\* new body's lines; the lines before, the terminating line and the lines
\* after it are kept in order.
C2_RegionReplacedExactly ==
    [][RegionReplaced(last') =>
          \E d \in 1..Len(PreLines(last'.path)) :
             /\ Matches(PreLines(last'.path)[d], RegionPat(last'))
             /\ ViewLines(bufs'[last'.path])
                   = SubSeq(PreLines(last'.path), 1, d - 1)
                       \o split(last'.arg.text)
                       \o SubSeq(PreLines(last'.path),
                                 Terminator(PreLines(last'.path), d),
                                 Len(PreLines(last'.path)))]_vars

C2_BodyReplacedBetweenKeptLines ==
    /\ RegionReplaced(last) /\ last.op = "edit_function"
    /\ disk["a.py"].text = VimWrite(<<X, DefFb, Empty, X>>)
    /\ ViewLines(bufs["a.py"]) = <<X>> \o split(NewBody) \o <<X>>

NewLines(c) == IF c.arg.some THEN split(c.arg.text) ELSE <<>>

Shown(ls) == IF ls = <<>> THEN <<Empty>> ELSE ls

\* C3 as stated: replace_range(start, end, new_lines) replaces the
\* 1-indexed lines start .. end-1 and leaves line end and every other line
\* unchanged.
C3_EndExclusive ==
    [][(last'.op = "replace_range" /\ 1 <= last'.n1 /\ last'.n1 <= last'.n2
          /\ last'.n2 <= Len(ViewLines(bufs[cur])))
       => /\ last'.ret
          /\ ViewLines(bufs'[cur]) =
                Shown(SubSeq(ViewLines(bufs[cur]), 1, last'.n1 - 1)
                      \o NewLines(last')
                      \o SubSeq(ViewLines(bufs[cur]), last'.n2,
                                Len(ViewLines(bufs[cur]))))]_vars

\* C3 amended: replace_range(start, end, new_lines) replaces the 1-indexed
\* lines start .. end, both inclusive, with new_lines (nothing is removed
\* when end = start - 1) and leaves every other line unchanged: line end
\* is replaced and line end+1 is the first line kept.
C3_EndInclusive ==
    [][(last'.op = "replace_range" /\ 1 <= last'.n1 /\ last'.n1 <= last'.n2 + 1
          /\ last'.n2 <= Len(ViewLines(bufs[cur])))
       => /\ last'.ret
          /\ ViewLines(bufs'[cur]) =
                Shown(SubSeq(ViewLines(bufs[cur]), 1, last'.n1 - 1)
                      \o NewLines(last')
                      \o SubSeq(ViewLines(bufs[cur]), last'.n2 + 1,
                                Len(ViewLines(bufs[cur]))))]_vars

C3_LineEndReplaced ==
    /\ last.op = "replace_range" /\ last.ret /\ last.n1 = 2 /\ last.n2 = 2
    /\ disk["a.py"].text = VimWrite(<<X, Body, X>>)
    /\ ViewLines(bufs[cur]) = <<X, Y, X>>

\* C4 as stated: after a region edit with a new body returns success and
\* has changed the file's lines, the file on disk holds the edited content
\* and the change log holds a record for that file with that content.
C4_EditSavedAndRecorded ==
    [][(RegionReplaced(last')
          /\ ViewLines(bufs'[last'.path]) # PreLines(last'.path))
       => /\ disk'[last'.path].text = VimWrite(bufs'[last'.path].lines)
          /\ \E i \in 1..Len(log') :
                /\ log'[i].file = last'.path
                /\ log'[i].new = disk'[last'.path].text]_vars

\* C5: a successful save_file appends exactly one record {file, original =
\* the snapshot taken at open time, new = the content read back from disk}
\* if and only if the read-back content differs from the snapshot; when
\* they are equal it returns success and appends nothing.
C5_SaveRecordsIffChanged ==
    [][(last'.op = "save_file" /\ last'.ret)
       => IF hasorig /\ disk'[cur'].text # orig
          THEN log' = Append(log, [file |-> cur', original |-> orig,
                                   new |-> disk'[cur'].text])
          ELSE log' = log]_vars

C5_ChangedSaveRecorded ==
    /\ last.op = "save_file" /\ last.ret /\ log # <<>>
    /\ log[Len(log)] = [file |-> cur, original |-> orig,
                        new |-> disk[cur].text]
    /\ orig # disk[cur].text
    /\ disk[cur].text = VimWrite(bufs[cur].lines)

\* C6: across every operation the change log only grows by appending at
\* its end: no record is removed, reordered, modified or merged, so a
\* file saved twice with two distinct diffs has two entries.
C6_LogAppendOnly ==
    [][IsPrefix(log, log') /\ Len(log') <= Len(log) + 1]_vars

C6_TwoEntriesForOneFile ==
    /\ Len(log) = 2 /\ log[1].file = log[2].file
    /\ <<log[1].original, log[1].new>> # <<log[2].original, log[2].new>>

\* the number of lines of ls that contain s
Occurrences(s, ls) == Cardinality({i \in 1..Len(ls) : Contains(s, ls[i])})

C8_InsertedAfterLastImport ==
    [][(last'.op = "add_import" /\ steps = 0
          /\ ~Contains(last'.arg.text, disk[last'.path].text))
       => /\ last'.ret
          /\ bufs'[last'.path].lines =
                SubSeq(VimRead(disk[last'.path].text), 1,
                       LastImportLine(VimRead(disk[last'.path].text)))
                \o <<last'.arg.text>>
                \o SubSeq(VimRead(disk[last'.path].text),
                          LastImportLine(VimRead(disk[last'.path].text)) + 1,
                          Len(VimRead(disk[last'.path].text)))
          /\ disk'[last'.path].text = VimWrite(bufs'[last'.path].lines)]_vars

\* C9: create_file leaves the change log exactly as it was, whatever came
\* before it.
C9_CreateFileNotRecorded ==
    [][(last'.op = "create_file") => log' = log]_vars

C9_CreatedAfterRecordedEdit ==
    /\ last.op = "create_file" /\ last.ret /\ last.path = "b.py"
    /\ cur = "b.py" /\ disk["b.py"] = File(VimWrite(<<Y>>))
    /\ Len(log) = 1 /\ log[1].file = "a.py"

\* which nvim / which vim finds a binary
Detected == bins \cap {"nvim", "vim"} # {}

\* the package manager of the host's family can install neovim or vim
Installable == osr \in {"debian", "ubuntu", "alpine"} /\ pkgs \cap {"neovim", "vim"} # {}

\* C10 as stated: whenever the probe of host:port succeeds at call time,
\* start_server returns success without spawning a process, whatever else
\* is true of the host.
C10_ProbeAloneDecides ==
    [][(last'.op = "start_server" /\ listen.by # "none")
       => (last'.ret /\ spawns' = spawns /\ alive' = alive)]_vars

\* C10 amended: start_server looks for the editor binary before it probes.
\* When a binary is detected or the install succeeds, and the probe
\* succeeds, it returns success without spawning; when no binary is
\* detected and the install fails it returns failure without spawning,
\* even though the probe would succeed.
C10_BinaryThenProbe ==
    [][(last'.op = "start_server")
       => /\ (listen.by # "none" /\ (Detected \/ Installable))
                => (last'.ret /\ spawns' = spawns /\ alive' = alive)
          /\ (~Detected /\ ~Installable)
                => (~last'.ret /\ spawns' = spawns /\ alive' = alive)]_vars

C10_FailsWhileListening ==
    /\ last.op = "start_server" /\ ~last.ret /\ steps = 1
    /\ listen = External /\ bins = {} /\ spawns = 0

\* C11: a start_server call made right after a start_server call that
\* returned True returns True, spawns no process and leaves
\* self._server_process as the first call left it; no single call spawns
\* more than one process, so the two calls spawn at most one.
C11_SecondStartSpawnsNothing ==
    [][/\ last'.op = "start_server" => spawns' <= spawns + 1
       /\ (last.op = "start_server" /\ last.ret /\ last'.op = "start_server")
              => (last'.ret /\ spawns' = spawns /\ sproc' = sproc
                  /\ alive' = alive /\ listen' = listen)]_vars

\* two start_server calls in a row on a host where the first one spawned
C11_StartedTwice ==
    /\ prev.op = "start_server" /\ prev.ret
    /\ last.op = "start_server" /\ last.ret
    /\ steps = 2 /\ spawns = 1 /\ sproc = 1 /\ alive = {1}

\* C12: a start_server call that gets past the check for the binary and
\* finds nothing listening calls Popen once (one more process when there is
\* an nvim to execute, none when Popen raises) and returns what the probe
\* after the grace period says: True iff something is listening then.
C12_SpawnOnceThenReprobe ==
    [][(last'.op = "start_server" /\ ~IsServerRunning(State)
            /\ EnsureInstalled(State).ret)
          => /\ spawns' = spawns + (IF "nvim" \in bins' THEN 1 ELSE 0)
             /\ "nvim" \in bins' => sproc' = spawns' /\ sproc' \in alive'
             /\ "nvim" \notin bins' => ~last'.ret /\ sproc' = sproc
             /\ last'.ret = (listen'.by # "none")]_vars

\* a spawned editor that is not listening after the grace period
C12_SpawnedButUnreachable ==
    /\ last.op = "start_server" /\ ~last.ret /\ steps = 1
    /\ spawns = 1 /\ sproc = 1 /\ listen = NoListener

\* what a step appended to sigs
NewSigs == SubSeq(sigs', Len(sigs) + 1, Len(sigs'))

\* C13: stop_server signals no process but the one this instance spawned:
\* when self._server_process is None it sends no signal, and an editor
\* that was started by someone else is still listening, with its buffers,
\* after the call.
C13_StopSparesExternalEditor ==
    [][last'.op = "stop_server"
          => /\ \A i \in 1..Len(NewSigs) :
                  NewSigs[i].sig # "close" => NewSigs[i].pid = sproc /\ sproc # 0
             /\ sproc = 0 => listen' = listen /\ alive' = alive /\ bufs' = bufs
             /\ listen = External => listen' = External]_vars

\* stop_server after a connect that found an editor already listening
C13_StoppedBesideExternalEditor ==
    /\ prev.op \in {"start_server", "connect"} /\ prev.ret
    /\ last.op = "stop_server" /\ spawns = 0 /\ listen = External

\* C14: stop_server closes the session first, if there is one, and then, if
\* this instance holds a process, sends it SIGTERM and, only when the
\* process does not exit within the wait, SIGKILL; nothing else is done.
\* After it the client is disconnected, no process is held and the process
\* is gone; a stop_server call that follows another changes nothing.
C14_StopClosesThenTerminates ==
    [][last'.op = "stop_server"
          => /\ IsPrefix(sigs, sigs')
             /\ NewSigs = (IF nvim # "none" THEN <<Closed>> ELSE <<>>)
                          \o (IF sproc # 0 THEN <<Sigterm(sproc)>> ELSE <<>>)
                          \o (IF sproc # 0 /\ stubborn THEN <<Sigkill(sproc)>>
                              ELSE <<>>)
             /\ nvim' = "none" /\ ~conn' /\ sproc' = 0 /\ sproc \notin alive'
             /\ last.op = "stop_server" => State' = State]_vars

\* a connected client stops the editor it spawned, which has to be killed,
\* and stops once more
C14_StoppedByKillThenAgain ==
    /\ prev.op = "stop_server" /\ last.op = "stop_server" /\ steps = 3
    /\ sigs = <<Closed, Sigterm(1), Sigkill(1)>>
    /\ nvim = "none" /\ sproc = 0 /\ alive = {} /\ listen = NoListener

\* the public buffer operations of the client
BufferOps ==
    {"open_file", "goto_line", "search", "insert_text", "replace_line",
     "replace_range", "save_file", "execute_command",
     "get_current_file_content"}

\* an nvim can be executed on the host, after an install if one is needed
NvimAvailable ==
    "nvim" \in bins \/ (~Detected /\ osr \in {"debian", "alpine"}
                        /\ "neovim" \in pkgs)

\* an editor answers on the port, or one can be started that answers within
\* the grace period
Reachable ==
    \/ listen.by \in {"ext", "own"}
    \/ listen.by = "none" /\ NvimAvailable /\ ~slow

\* C15: a buffer operation called while the client is not connected, on a
\* host where no editor can be reached (none can be started, or the port is
\* taken by something that refuses the attach), returns its failure value
\* (False or None), leaves the client disconnected, sends no request to an
\* editor and leaves the snapshot, the change log, the buffers and the
\* files as they were.
C15_UnreachableOperationFails ==
    [][(last'.op \in BufferOps /\ (~conn \/ nvim = "none") /\ ~Reachable)
          => /\ ~last'.ret
             /\ last'.op = "get_current_file_content" => last'.arg = None
             /\ nvim' = "none" /\ ~conn'
             /\ did'.requests = 0
             /\ hasorig' = hasorig /\ orig' = orig /\ log' = log
             /\ cur' = cur /\ bufs' = bufs /\ disk' = disk]_vars

\* open_file where the port is taken by something that is not an editor:
\* the attach was tried and refused
C15_OpenRefusedByForeignListener ==
    /\ last.op = "open_file" /\ ~last.ret /\ listen = Foreign
    /\ did.attaches = 1 /\ did.refused = 1 /\ did.requests = 0
    /\ ~hasorig /\ nvim = "none"

\* C16: a buffer operation called while the client is not connected calls
\* connect once, and with it start_server at most once and the attach at
\* most once; it sends requests only if that left it connected.  Called
\* while connected it does none of these.
C16_OneConnectCyclePerOperation ==
    [][last'.op \in BufferOps
          => /\ (~conn \/ nvim = "none")
                  => /\ did'.connects = 1
                     /\ did'.starts <= 1 /\ did'.attaches <= 1
                     /\ did'.requests > 0 => nvim' = "live" /\ conn'
             /\ (conn /\ nvim # "none")
                  => did'.connects = 0 /\ did'.starts = 0
                     /\ did'.attaches = 0]_vars

\* a first goto_line that starts the editor, attaches and goes on
C16_StartedAttachedProceeded ==
    /\ last.op = "goto_line" /\ last.ret /\ steps = 1
    /\ did = [Idle EXCEPT !.connects = 1, !.starts = 1, !.attaches = 1,
                          !.requests = 1, !.popens = 1]
    /\ spawns = 1

\* C17 as stated: a call in which the attach is refused makes one
\* start_server call and a second attach attempt.
C17_RefusedAttachRetried ==
    [][(last'.op \in BufferOps \cup {"connect"} /\ did'.refused > 0)
          => did'.starts = 1 /\ did'.attaches = 2]_vars

\* the operations that look for a definition or a pattern
Lookups == {"edit_function", "edit_class", "insert_after_pattern"}

\* C18: an edit_function, edit_class or insert_after_pattern call that
\* does not find what it searches for (the function, the class, the method
\* of a class that was found, the pattern) returns False and changes
\* nothing: the file's buffer shows the lines it showed on opening and is
\* not marked modified, and the files and the change log are as before.
C18_NotFoundChangesNothing ==
    [][(last'.op \in Lookups /\ last'.note \in {"not found", "method not found"})
          => /\ ~last'.ret
             /\ cur' = last'.path
             /\ ViewLines(bufs'[last'.path]) = PreLines(last'.path)
             /\ bufs'[last'.path].modified
                   = (last'.path # cur /\ bufs[last'.path].loaded
                      /\ bufs[last'.path].modified)
             /\ disk' = disk /\ log' = log]_vars

\* the class is there and the method is not
C18_ClassFoundMethodMissing ==
    /\ last.op = "edit_class" /\ last.note = "method not found" /\ ~last.ret
    /\ \E r \in 1..Len(ViewLines(bufs["a.py"])) :
          Matches(ViewLines(bufs["a.py"])[r], ClassPat("C"))
    /\ \A r \in 1..Len(ViewLines(bufs["a.py"])) :
          ~Matches(ViewLines(bufs["a.py"])[r], MethodPat("m"))
    /\ disk["a.py"].text = VimWrite(ViewLines(bufs["a.py"]))

\* C20 as stated: an insert_after_pattern call that finds the pattern on
\* line d leaves lines 1..d as they were, puts the lines of the content
\* right after line d, leaves the lines after d as they were, and saves,
\* appending one record for the file.
C20_InsertedAfterMatchedLine ==
    [][(last'.op = "insert_after_pattern" /\ last'.note \notin
            {"not opened", "not found"})
          => /\ last'.ret
             /\ \E d \in 1..Len(PreLines(last'.path)) :
                  /\ Matches(PreLines(last'.path)[d], LitPat(last'.name))
                  /\ ViewLines(bufs'[last'.path])
                        = SubSeq(PreLines(last'.path), 1, d)
                            \o split(last'.arg.text)
                            \o SubSeq(PreLines(last'.path), d + 1,
                                      Len(PreLines(last'.path)))
             /\ disk'[last'.path].text = VimWrite(ViewLines(bufs'[last'.path]))
             /\ Len(log') = Len(log) + 1
             /\ log'[Len(log')].file = last'.path]_vars

\* the functions of integration.py that edit
IntegrationOps ==
    {"edit_file", "integration.add_import",
     "integration.insert_after_pattern"}

\* C19 as stated: every integration call returns a dict whose changes are
\* the formatted change log as it is when the call returns, on the paths
\* where an exception was raised inside as on the others.
C19_ReplyCarriesFormattedLog ==
    last.op \in IntegrationOps
        => reply.given /\ reply.changes = FormatChangesForChat(State)

\* the package manager has a package to install
Primary == "neovim" \in pkgs
Secondary == "vim" \in pkgs

\* C21: a call that runs _install_neovim runs it once; on a Debian or
\* Ubuntu host it runs the update, the neovim install, and the vim install
\* only if the neovim install failed; on an Alpine host the neovim add, and
\* the vim add only if that failed; on any other host no package command.
\* The install is taken as done (the call goes on to the probe, and to the
\* spawn if nothing listens) iff the host is of a supported family and the
\* neovim or the vim install succeeded.
C21_InstallStepsInOrder ==
    [][did'.installs > 0
          => /\ did'.installs = 1
             /\ did'.cmds =
                  IF osr \in {"debian", "ubuntu"}
                  THEN <<AptUpdate, AptNeovim>>
                          \o (IF Primary THEN <<>> ELSE <<AptVim>>)
                  ELSE IF osr = "alpine"
                  THEN <<ApkNeovim>> \o (IF Primary THEN <<>> ELSE <<ApkVim>>)
                  ELSE <<>>
             /\ (last'.ret \/ did'.popens > 0)
                   => osr # "other" /\ (Primary \/ Secondary)
             /\ (osr # "other" /\ (Primary \/ Secondary))
                   => (did'.popens > 0 \/ (listen.by # "none" /\ last'.ret))
             /\ bins' = IF osr = "other" THEN bins
                        ELSE IF Primary THEN {"nvim"}
                        ELSE IF Secondary THEN {"vim"} ELSE {}]_vars

\* on an Alpine host without a neovim package the vim add is run and succeeds
C21_AlpineFallsBackToVim ==
    /\ last.op = "start_server" /\ osr = "alpine" /\ steps = 1
    /\ did.cmds = <<ApkNeovim, ApkVim>> /\ bins = {"vim"}
    /\ did.popens = 1 /\ ~last.ret

\* C22: a definition line beyond the line count of the content makes
\* edit_function and edit_class alike return False, without raising and
\* without a replacement in the buffer.
C22_OutOfRangeReportedAsFailure ==
    (last.op \in {"edit_function", "edit_class"} /\ shared /\ last.arg.some
        /\ last.note \notin {"not opened", "not found", "method not found",
                             "no line", "no content"})
       => /\ last.note = "out of range"
          /\ ~last.ret
          /\ log = <<>>

\* C23: an open_file that succeeds leaves the snapshot equal to what the
\* file holds on disk at that moment (empty when there is no file), makes
\* the path the current buffer, and appends nothing to the change log,
\* whatever unsaved edits the buffer it leaves has.
C23_OpenSnapshotsAndSwitches ==
    [][(last'.op = "open_file" /\ last'.ret)
          => /\ hasorig'
             /\ orig' = IF disk[last'.path].exists THEN disk[last'.path].text
                        ELSE <<>>
             /\ cur' = last'.path
             /\ bufs'[cur'].loaded
             /\ log' = log
             /\ disk' = disk]_vars

\* b.py opened over a.py, which has an unsaved replacement
C23_SwitchedFromUnsavedBuffer ==
    /\ prev.op = "replace_line" /\ prev.ret
    /\ last.op = "open_file" /\ last.ret /\ last.path = "b.py"
    /\ cur = "b.py" /\ bufs["a.py"].modified
    /\ orig = disk["b.py"].text /\ orig # disk["a.py"].text
    /\ log = <<>>

\* the lines of a text that open a diff
Headers(text) == SelectSeq(split(text), LAMBDA l : l # <<>> /\ l[1] = "---")

\* C24: format_changes_for_chat never returns the empty string: for an
\* empty log it returns the sentinel, otherwise one diff per record, in the
\* order of the log, each opened by the Original: line of the record's file.
C24_OneLabelledDiffPerRecord ==
    last.op = "format_changes_for_chat"
       => /\ last.arg.text # <<>>
          /\ log = <<>> => last.arg.text = NoChanges
          /\ log # <<>> =>
                Headers(last.arg.text)
                   = [i \in 1..Len(log) |->
                         <<"---", " ", "Original:", " ", log[i].file>>]

\* the cursor of the current window
Cursor(bs, c) == <<bs[c].row, bs[c].col>>

\* the pattern a call searches first
PatOf(c) ==
    IF c.op = "edit_function" THEN FuncPat(c.name)
    ELSE IF c.op = "edit_class" THEN ClassPat("C")
    ELSE LitPat(c.name)

\* the current buffer is a.py as it is on disk, and the line of the cursor
\* is the only line that matches
OnlyMatchAtCursor(pat) ==
    /\ nvim = "live" /\ listen.by # "none" /\ cur = "a.py"
    /\ ~bufs[cur].modified /\ bufs[cur].lines = VimRead(disk[cur].text)
    /\ {r \in 1..Len(bufs[cur].lines) : Matches(bufs[cur].lines[r], pat)}
          = {bufs[cur].row}

\* C25: search returns True exactly when the cursor is somewhere else after
\* the command than before it; so a search, edit_function, edit_class or
\* insert_after_pattern whose pattern matches only the line the cursor is
\* on fails as not found and changes nothing.
C25_FoundMeansCursorMoved ==
    [][/\ (last'.op = "search" /\ nvim = "live" /\ listen.by # "none")
             => (last'.ret <=> Cursor(bufs', cur') # Cursor(bufs, cur))
       /\ (last'.op = "search" /\ last'.ret)
             => nvim' = "live" /\ Cursor(bufs', cur') # Cursor(bufs, cur)
       /\ (/\ last'.op \in {"search", "edit_function", "edit_class",
                            "insert_after_pattern"}
           /\ OnlyMatchAtCursor(PatOf(last')))
             => /\ ~last'.ret
                /\ last'.op # "search" => last'.note = "not found"
                /\ bufs' = bufs /\ disk' = disk /\ log' = log]_vars

\* edit_function navigates to f, and a second edit_function does not find it
C25_SecondNavigationNotFound ==
    /\ prev.op = "edit_function" /\ prev.ret /\ prev.note = "navigated"
    /\ last.op = "edit_function" /\ ~last.ret /\ last.note = "not found"
    /\ last.arg.some
    /\ \E r \in 1..Len(bufs[cur].lines) :
          Matches(bufs[cur].lines[r], FuncPat("f")) /\ bufs[cur].row = r

\* C26: edit_function and edit_class without new content, once the
\* definition is found, return True having only opened the file and
\* searched: the lines of the buffer, the disk and the change log are as
\* before, and no request beyond the open and the searches is sent.
C26_NavigationOnly ==
    [][(last'.op \in {"edit_function", "edit_class"} /\ ~last'.arg.some)
          => /\ last'.note \in {"not opened", "not found", "method not found",
                                "navigated"}
             /\ last'.note = "navigated"
                   => /\ last'.ret
                      /\ cur' = last'.path
                      /\ bufs'[cur'].lines \in {bufs[cur'].lines,
                                                VimRead(disk[cur'].text)}
                      /\ bufs'[cur'].modified
                            => bufs[cur'].modified
                               /\ bufs'[cur'].lines = bufs[cur'].lines
                      /\ disk' = disk /\ log' = log
                      /\ did'.requests =
                            IF last'.op = "edit_class" /\ last'.name # ""
                            THEN 4 ELSE 2]_vars

\* edit_class navigates to the method m of C: the cursor is on its line
C26_NavigatedToMethod ==
    /\ last.op = "edit_class" /\ last.name = "m" /\ ~last.arg.some
    /\ last.ret /\ last.note = "navigated"
    /\ bufs[cur].lines = VimRead(disk[cur].text) /\ log = <<>>
    /\ Matches(bufs[cur].lines[bufs[cur].row], MethodPat("m"))

\* what a probe may not change: the host, the processes, the session
Supervised ==
    <<bins, osr, pkgs, listen, alive, spawns, sproc, sigs, nvim, conn,
      hasorig, orig, log, disk, cur, bufs>>

\* C27: _is_server_running, whenever it is called, returns whether
\* something accepts connections on the port, False when the connection is
\* refused, and changes nothing: no process is spawned or signalled, the
\* session is neither attached nor closed, and no start, connect, install
\* or request is made.
C27_ProbeChangesNothing ==
    [][last'.op = "get_server_status"
          => /\ UNCHANGED Supervised
             /\ did' = Idle
             /\ last'.ret <=> listen.by # "none"]_vars

\* the probe fails while a spawned editor is alive and not yet listening
C27_ProbedSpawnedNotListening ==
    /\ prev.op = "start_server" /\ ~prev.ret
    /\ last.op = "get_server_status" /\ ~last.ret
    /\ alive # {} /\ listen.by = "none"

\* C28: after a create_file that returns True the file at the path holds
\* exactly the lines of the content, and every buffer of another file that
\* the editor had loaded has the lines it had.
C28_CreateFileTouchesOnlyNewFile ==
    [][(last'.op = "create_file" /\ last'.ret)
          => /\ disk'[last'.path] = File(VimWrite(split(last'.arg.text)))
             /\ \A p \in Paths \ {last'.path} :
                   (nvim = "live" /\ listen.by # "none" /\ bufs[p].loaded)
                      => bufs'[p].lines = bufs[p].lines]_vars

\* C29: one call of edit_function, edit_class, add_import,
\* insert_after_pattern, create_file or edit_file runs _install_neovim at
\* most once and spawns the editor at most once.
C29_InstallAndSpawnOncePerOperation ==
    last.op \in {"edit_function", "edit_class", "add_import",
                 "insert_after_pattern", "create_file", "edit_file"}
       => did.installs <= 1 /\ did.popens <= 1

\* C30: an open_file that fails on a connected session leaves the snapshot
\* and the current buffer as they were.
C30_FailedOpenKeepsSnapshot ==
    [][(last'.op = "open_file" /\ ~last'.ret /\ nvim' = "live")
          => /\ hasorig' = hasorig /\ orig' = orig
             /\ cur' = cur]_vars

\* the line a search from line r lands on: the next matching line after r,
\* or else the first matching line of the buffer; 0 when no line matches
NextMatch(ls, pat, r) ==
    LET rows == {q \in 1..Len(ls) : Matches(ls[q], pat)}
        after == {q \in rows : q > r}
    IN  IF after # {} THEN CHOOSE q \in after : \A k \in after : q <= k
        ELSE IF rows # {} THEN CHOOSE q \in rows : \A k \in rows : q <= k
        ELSE 0

\* the first matching line from line r on; 0 when there is none
FirstFrom(ls, pat, r) ==
    LET rows == {q \in r..Len(ls) : Matches(ls[q], pat)}
    IN  IF rows # {} THEN CHOOSE q \in rows : \A k \in rows : q <= k ELSE 0

\* the line of the class an edit_class finds in the file it opens, and the
\* line below it
ClassLine(c) == NextMatch(PreLines(c.path), ClassPat("C"), 1)
BodyLine(c) == Min(ClassLine(c) + 1, Len(PreLines(c.path)))

\* an edit_class with a method that found the class
MethodSought(c) ==
    /\ c.op = "edit_class" /\ c.name # ""
    /\ c.note \notin {"not opened", "not found"}

C32_OriginalIsOwnSnapshot ==
    [][Len(log') > Len(log)
          => /\ snaps'[log'[Len(log')].file].read
             /\ log'[Len(log')].original = snaps'[log'[Len(log')].file].text]_vars

\* C33: a save_file that directly follows a successful save_file appends
\* nothing to the change log.
C33_SecondSaveAddsNothing ==
    [][(last.op = "save_file" /\ last.ret /\ last'.op = "save_file")
          => log' = log]_vars

\* C34: at most one process spawned by start_server is alive, and every
\* such process that is alive is the one self._server_process refers to.
C34_OneSpawnedProcessHeld ==
    Cardinality(alive) <= 1 /\ alive \subseteq {sproc}

\* C35: whenever start_server gets as far as the spawn, the binary it
\* executes is on the PATH.
C35_SpawnedBinaryPresent ==
    [][(last'.op = "start_server" /\ did'.popens > 0) => "nvim" \in bins']_vars

\* C36: when the editor has died under an attached session, the buffer
\* operations that follow lead to a live session again and to an operation
\* that succeeds.
C36_DeadSessionRecovers ==
    (nvim = "dead") ~> (nvim = "live" /\ last.ret)

============================================================================
